---- MODULE Spec2Model ----
(***************************************************************************)
(* Execution-mode resolution, skip decision, per-instrument extraction     *)
(* strategy selection and the task graph of the stock ETL pipeline         *)
(* (src/stock_etl/utils/dag_utils.py, polish_trading_calendar.py,          *)
(* airflow_dags/stock_etl_dag.py).                                         *)
(*                                                                         *)
(* Dates are day numbers.  Day 0 is Monday 2025-04-07, so d % 7 is         *)
(* date.weekday() (0 = Monday .. 6 = Sunday).  The ds string of the run    *)
(* context is 'YYYY-MM-DD'; strptime/strftime with '%Y-%m-%d' map it one   *)
(* to one onto dates, so ds is carried as the day number it denotes.       *)
(***************************************************************************)
EXTENDS Integers, Sequences, FiniteSets, TLC

\* ------------------------------------------------------------------ bounds

\* Oldest logical date tried, in days before today.
MaxAge == 8

\* Number of consecutive values of "today" tried.
MaxDays == 19

\* Symbols the Stooq extraction loops over, stocks and indices in turn.
NumSampled == 2

\* Records a download returns at most.
MaxFetched == 1

\* Consecutive values of "today" a run of the DAG is started on.
MaxRunDays == 2

\* Failures of the database, the network and the workers within one run.
MaxFaults == 1

\* Records of the list handed to the slicing of one symbol.
MaxLen == 4

\* Largest of the small record caps tried next to 500 and 1000.
MaxCap == 3

\* Records of the batch handed to the load loop.
MaxBatch == 3

\* Upserts applied one after the other to the price tables.
MaxUpserts == 3

\* Records of one symbol in a CLI load.
MaxSymbolRecords == 2

\* ------------------------------------------------------- program constants

\* timedelta(days=7) of the execution-date age rule.
BackfillAgeDays == 7

\* INTERVAL '7 days' of the is_stale column.
StaleDays == 7

\* record_count < 30 of the sparse-data rule.
SparseRecords == 30

\* max_records of the manual, new-instrument, sparse and run-level decisions.
GenerousCap == 1000

\* max_records of the stale-data decision.
StaleCap == 500

\* max_records of the unlimited backfill (-1 = unlimited).
Unlimited == -1

\* conf.get('batch_size', 30)
DefaultBackfillBatch == 30

\* ------------------------------------------------------------------ values

\* A key that a dict does not hold / a context entry that is None.
Absent == "<absent>"
NoDate == 0 - 1
NoInt == 0 - 1

\* --------------------------------------------------------- trading calendar

\* holidays.Poland(years=...) restricted to the window of the model:
\* Easter Sunday 2025-04-20, Easter Monday 2025-04-21, 2025-05-01, 2025-05-03.
polish_holidays ==
    [d \in {13, 14, 24, 26} |->
        CASE d = 13 -> "Niedziela Wielkanocna"
          [] d = 14 -> "Poniedzialek Wielkanocny"
          [] d = 24 -> "Swieto Panstwowe"
          [] d = 26 -> "Swieto Narodowe Trzeciego Maja"]

custom_closures == {}

weekday(d) == d % 7

\* Variant: a calendar of weekends only.
is_trading_day_weekends_only(check_date) == weekday(check_date) < 5

is_trading_day(check_date) ==
    IF weekday(check_date) >= 5 THEN FALSE
    ELSE IF check_date \in DOMAIN polish_holidays THEN FALSE
    ELSE IF check_date \in custom_closures THEN FALSE
    ELSE TRUE

RECURSIVE walk_back(_)
walk_back(check_date) ==
    IF ~ is_trading_day(check_date) THEN walk_back(check_date - 1)
    ELSE check_date

get_previous_trading_day(reference_date) ==
    walk_back(reference_date - 1)

RECURSIVE walk_forward(_)
walk_forward(check_date) ==
    IF ~ is_trading_day(check_date) THEN walk_forward(check_date + 1)
    ELSE check_date

\* Variant: the walk starts at the reference date itself.
get_next_trading_day_inclusive(reference_date) ==
    walk_forward(reference_date)

get_next_trading_day(reference_date) ==
    walk_forward(reference_date + 1)

get_holiday_name(check_date) ==
    IF check_date \in DOMAIN polish_holidays THEN polish_holidays[check_date]
    ELSE IF check_date \in custom_closures THEN "Market Closure"
    ELSE ""

\* ------------------------------------------------------------- run context

\* dag_run.conf: the operator's configuration mapping.  A None conf and an
\* empty one are both replaced by {} (dag_utils.py:105, stock_etl_dag.py:1067),
\* so both are the mapping with every key absent.  instruments is any JSON
\* value: kind "dict" with its entries in map, or kind "other" (a string, a
\* list).
NoInstruments == [kind |-> "absent", map |-> <<>>]

EmptyConf ==
    [mode |-> Absent, extraction_mode |-> Absent, instruments |-> NoInstruments,
     date_range |-> Absent, batch_size |-> NoInt, schema |-> Absent]

\* context.get('dag_run') is None
NoDagRun ==
    [present |-> FALSE, conf |-> EmptyConf, run_type |-> Absent,
     is_backfill |-> FALSE]

\* conf = dag_run.conf if dag_run and dag_run.conf else {}
conf_of(dag_run) ==
    IF dag_run.present THEN dag_run.conf ELSE EmptyConf

\* -------------------------------------------------- execution mode resolver

NoConfig ==
    [mode |-> Absent, execution_date_obj |-> NoDate, today |-> NoDate,
     dag_run_type |-> Absent, is_trading_day |-> FALSE, reason |-> Absent,
     manual_conf |-> EmptyConf, target_date |-> NoDate, date_range |-> Absent,
     batch_size |-> NoInt]

\* The logical date the resolver works on: ds, else logical_date, else today.
execution_date_of(context, today) ==
    IF context.ds # NoDate THEN context.ds
    ELSE IF context.logical_date # NoDate THEN context.logical_date
    ELSE today

mode_rule_inclusive(conf, dag_run, execution_dt, today) ==
    IF conf.mode = "backfill"
        THEN [mode |-> "backfill", reason |-> "Explicit backfill configuration"]
    ELSE IF ~ dag_run.present
        THEN [mode |-> "raise", reason |-> "AttributeError"]
    ELSE IF dag_run.run_type \in {"backfill", "manual"}
        THEN [mode |-> "backfill", reason |-> "DAG run type"]
    ELSE IF execution_dt <= today - BackfillAgeDays
        THEN [mode |-> "backfill", reason |-> "Historical date (older than 7 days)"]
    ELSE IF dag_run.is_backfill
        THEN [mode |-> "backfill", reason |-> "Airflow catchup/backfill run"]
    ELSE [mode |-> "incremental", reason |-> "Default mode"]

\* The mode and its reason; "raise" where dag_run.run_type is read off None.
mode_rule(conf, dag_run, execution_dt, today) ==
    IF conf.mode = "backfill"
        THEN [mode |-> "backfill", reason |-> "Explicit backfill configuration"]
    ELSE IF ~ dag_run.present
        THEN [mode |-> "raise", reason |-> "AttributeError"]
    ELSE IF dag_run.run_type \in {"backfill", "manual"}
        THEN [mode |-> "backfill", reason |-> "DAG run type"]
    ELSE IF execution_dt < today - BackfillAgeDays
        THEN [mode |-> "backfill", reason |-> "Historical date (older than 7 days)"]
    ELSE IF dag_run.is_backfill
        THEN [mode |-> "backfill", reason |-> "Airflow catchup/backfill run"]
    ELSE [mode |-> "incremental", reason |-> "Default mode"]

\* Mode-specific target date: the exact execution date for backfill, the
\* previous trading day for incremental.
target_date_for_logical(mode, execution_dt, today) ==
    IF mode = "backfill" THEN execution_dt
    ELSE get_previous_trading_day(execution_dt)

\* Variant: an incremental run targets the day before today.
target_date_for_yesterday(mode, execution_dt, today) ==
    IF mode = "backfill" THEN execution_dt
    ELSE today - 1

target_date_for(mode, execution_dt, today) ==
    IF mode = "backfill" THEN execution_dt
    ELSE get_previous_trading_day(today)

\* Variant: the invocation fills a default into the conf it was given.
context_after_setdefault(context) ==
    IF context.dag_run.present /\ context.dag_run.conf.date_range = Absent
    THEN [context EXCEPT !.dag_run.conf.date_range = "single_day"]
    ELSE context

\* The run context after an invocation of the resolver: dag_run.conf is
\* read with conf.get and stored under manual_conf, nothing is written.
context_after(context) == context

determine_execution_mode(context, today) ==
    LET dag_run == context.dag_run
        execution_dt == execution_date_of(context, today)
        conf == conf_of(dag_run)
        rule == mode_rule(conf, dag_run, execution_dt, today)
        mode == rule.mode
    IN  IF mode = "raise"
        THEN [raised |-> TRUE, mode |-> Absent, config |-> NoConfig]
        ELSE [raised |-> FALSE, mode |-> mode, config |->
                [mode |-> mode,
                 execution_date_obj |-> execution_dt,
                 today |-> today,
                 dag_run_type |-> IF dag_run.present THEN dag_run.run_type
                                  ELSE "unknown",
                 is_trading_day |-> is_trading_day(execution_dt),
                 reason |-> rule.reason,
                 manual_conf |-> conf,
                 target_date |-> target_date_for(mode, execution_dt, today),
                 date_range |-> IF mode = "backfill" /\ conf.date_range # Absent
                                THEN conf.date_range ELSE "single_day",
                 batch_size |-> IF mode = "backfill"
                                THEN (IF conf.batch_size # NoInt
                                      THEN conf.batch_size
                                      ELSE DefaultBackfillBatch)
                                ELSE 1]]

\* ------------------------------------------------------------ skip decision

should_skip_execution_calendar(config) ==
    IF ~ is_trading_day(config.target_date)
    THEN [should_skip |-> TRUE, reason |-> "Non-trading day", holiday |-> ""]
    ELSE [should_skip |-> FALSE, reason |-> "Trading day: proceeding with",
          holiday |-> ""]

\* Variant: the weekend is tested before the holiday name.
should_skip_execution_weekend_first(config) ==
    LET target_date == config.target_date
    IN  IF config.mode = "backfill"
        THEN IF weekday(target_date) >= 5
             THEN [should_skip |-> TRUE, reason |-> "Weekend date", holiday |-> ""]
             ELSE [should_skip |-> FALSE, reason |-> "Backfill mode: processing",
                   holiday |-> ""]
        ELSE IF ~ is_trading_day(target_date)
        THEN IF weekday(target_date) >= 5
             THEN [should_skip |-> TRUE, reason |-> "Weekend", holiday |-> ""]
             ELSE IF get_holiday_name(target_date) # ""
             THEN [should_skip |-> TRUE, reason |-> "Polish holiday",
                   holiday |-> get_holiday_name(target_date)]
             ELSE [should_skip |-> TRUE, reason |-> "Non-trading day",
                   holiday |-> ""]
        ELSE [should_skip |-> FALSE, reason |-> "Trading day: proceeding with",
              holiday |-> ""]

should_skip_execution(config) ==
    LET target_date == config.target_date
        mode == config.mode
    IN  IF mode = "backfill"
        THEN IF weekday(target_date) >= 5
             THEN [should_skip |-> TRUE, reason |-> "Weekend date", holiday |-> ""]
             ELSE [should_skip |-> FALSE, reason |-> "Backfill mode: processing",
                   holiday |-> ""]
        ELSE IF ~ is_trading_day(target_date)
        THEN LET holiday_name == get_holiday_name(target_date)
             IN  IF holiday_name # ""
                 THEN [should_skip |-> TRUE, reason |-> "Polish holiday",
                       holiday |-> holiday_name]
                 ELSE IF weekday(target_date) >= 5
                 THEN [should_skip |-> TRUE, reason |-> "Weekend", holiday |-> ""]
                 ELSE [should_skip |-> TRUE, reason |-> "Non-trading day",
                       holiday |-> ""]
        ELSE [should_skip |-> FALSE, reason |-> "Trading day: proceeding with",
              holiday |-> ""]

\* ------------------------------------------- extraction strategy selector

\* The selector's history query for one instrument: it fails (ok = FALSE: no
\* connection, SQL error), or returns the one row of the aggregate:
\* COUNT(*), MAX(trading_date) (NoDate = NULL, when no row matched).
FailedQuery == [ok |-> FALSE, record_count |-> 0, latest_date |-> NoDate]

\* MAX(trading_date) < (CURRENT_DATE - INTERVAL '7 days'); NULL is falsy.
is_stale(latest_date, today) ==
    latest_date # NoDate /\ latest_date < today - StaleDays

NoDecision ==
    [raised |-> FALSE, strategy |-> Absent, reason |-> Absent, max_records |-> 0]

Decision(strategy, reason, max_records) ==
    [raised |-> FALSE, strategy |-> strategy, reason |-> reason,
     max_records |-> max_records]

instrument_override_unvalidated(manual_conf, symbol) ==
    LET instrument_overrides == manual_conf.instruments
    IN  IF instrument_overrides.kind = "dict"
           /\ symbol \in DOMAIN instrument_overrides.map
        THEN instrument_overrides.map[symbol]
        ELSE Absent

\* Instrument-specific override: the strategy, or Absent when none applies.
instrument_override(manual_conf, symbol) ==
    LET instrument_overrides == manual_conf.instruments
    IN  IF instrument_overrides.kind = "dict"
           /\ symbol \in DOMAIN instrument_overrides.map
           /\ instrument_overrides.map[symbol] \in {"historical", "incremental"}
        THEN instrument_overrides.map[symbol]
        ELSE Absent

global_override_else_historical(manual_conf) ==
    LET global_mode == IF manual_conf.extraction_mode = Absent THEN "smart"
                       ELSE manual_conf.extraction_mode
    IN  IF global_mode = "full_backfill"
        THEN Decision("historical", "UNLIMITED BACKFILL", Unlimited)
        ELSE IF global_mode = "incremental"
        THEN Decision("incremental", "Global incremental mode override", 1)
        ELSE IF global_mode # "smart"
        THEN Decision("historical", "Global historical mode override", GenerousCap)
        ELSE NoDecision

\* Global extraction mode override, or NoDecision.
global_override(manual_conf) ==
    LET global_mode == IF manual_conf.extraction_mode = Absent THEN "smart"
                       ELSE manual_conf.extraction_mode
    IN  IF global_mode = "full_backfill"
        THEN Decision("historical", "UNLIMITED BACKFILL", Unlimited)
        ELSE IF global_mode = "historical"
        THEN Decision("historical", "Global historical mode override", GenerousCap)
        ELSE IF global_mode = "incremental"
        THEN Decision("incremental", "Global incremental mode override", 1)
        ELSE NoDecision

database_state_decision_all_new(result, today) ==
    IF result.record_count = 0
    THEN Decision("historical", "New instrument: no existing data", Unlimited)
    ELSE IF is_stale(result.latest_date, today)
    THEN Decision("historical", "Stale data", StaleCap)
    ELSE IF result.latest_date # NoDate /\ result.record_count < SparseRecords
    THEN Decision("historical", "Sparse data", GenerousCap)
    ELSE Decision("incremental", "Current data", 1)

database_state_decision_sparse_first(result, today) ==
    IF result.record_count = 0
    THEN Decision("historical", "New instrument: no existing data", GenerousCap)
    ELSE IF result.latest_date # NoDate /\ result.record_count < SparseRecords
    THEN Decision("historical", "Sparse data", GenerousCap)
    ELSE IF is_stale(result.latest_date, today)
    THEN Decision("historical", "Stale data", StaleCap)
    ELSE Decision("incremental", "Current data", 1)

\* Database state analysis on the row of a query that succeeded.
database_state_decision(result, today) ==
    IF result.record_count = 0
    THEN Decision("historical", "New instrument: no existing data", GenerousCap)
    ELSE IF is_stale(result.latest_date, today)
    THEN Decision("historical", "Stale data", StaleCap)
    ELSE IF result.latest_date # NoDate /\ result.record_count < SparseRecords
    THEN Decision("historical", "Sparse data", GenerousCap)
    ELSE Decision("incremental", "Current data", 1)

\* DAG execution mode fallback; the resolver's exception is not caught here.
execution_mode_fallback(context, today) ==
    LET em == determine_execution_mode(context, today)
    IN  IF em.raised
        THEN [raised |-> TRUE, strategy |-> Absent, reason |-> Absent,
              max_records |-> 0]
        ELSE IF em.mode = "backfill"
        THEN Decision("historical", "Backfill execution mode detected", GenerousCap)
        ELSE Decision("incremental", "Default incremental mode", 1)

\* result is the outcome of the history query the call sends: on stock_prices
\* when instrument_type = 'stock', else on index_prices, for the rows of symbol.
determine_extraction_strategy(symbol, instrument_type, context, result, today) ==
    LET manual_conf == conf_of(context.dag_run)
        override_mode == instrument_override(manual_conf, symbol)
        global == global_override(manual_conf)
    IN  IF override_mode # Absent
        THEN Decision(override_mode, "Manual override", GenerousCap)
        ELSE IF global # NoDecision THEN global
        ELSE IF result.ok THEN database_state_decision(result, today)
        ELSE execution_mode_fallback(context, today)

\* ----------------------------------------------------------- the task graph

Tasks ==
    {"check_prerequisites", "skip_execution", "proceed_with_etl",
     "create_etl_job", "extract_and_transform", "load_data",
     "validate_data_quality", "finalize_etl_session"}

\* check_prerequisites >> [skip_execution, proceed_with_etl];
\* proceed_with_etl >> create_etl_job >> ... >> finalize_etl_session
upstream_task_ids(t) ==
    CASE t = "check_prerequisites" -> {}
      [] t = "skip_execution" -> {"check_prerequisites"}
      [] t = "proceed_with_etl" -> {"check_prerequisites"}
      [] t = "create_etl_job" -> {"proceed_with_etl"}
      [] t = "extract_and_transform" -> {"create_etl_job"}
      [] t = "load_data" -> {"extract_and_transform"}
      [] t = "validate_data_quality" -> {"load_data"}
      [] t = "finalize_etl_session" -> {"validate_data_quality"}

trigger_rule(t) ==
    IF t = "finalize_etl_session" THEN "none_failed_min_one_success"
    ELSE "all_success"

\* ENVIRONMENTS[env]['retries']
retries(environment) ==
    CASE environment = "dev" -> 1
      [] environment = "test" -> 1
      [] environment = "prod" -> 2

\* -------------------------------------------------------------------- state

VARIABLES
    call,           \* the function under call: its name
    pc,             \* "call": arguments bound; "return": result computed
    context,        \* the run context: ds, logical_date, dag_run
    today,          \* date.today() / CURRENT_DATE
    symbol,         \* selector argument
    instrument_type,\* selector argument
    query_result,   \* outcome of the selector's history query
    config,         \* should_skip_execution argument
    em_ret,         \* determine_execution_mode result
    skip_ret,       \* should_skip_execution result
    es_ret,         \* determine_extraction_strategy result
    args,           \* arguments of any other function under call
    ret,            \* its result
    params,         \* DAG params of the run: environment, enable_validation
    task_state,     \* scheduler state of each task instance of the run
    xcom,           \* values pushed by the tasks of the run
    etl_jobs,       \* etl_jobs table: job id -> row
    etl_job_details,\* etl_job_details table, in insertion order
    base_instruments,\* base_instruments / stocks / indices tables
    prices,         \* stock_prices and index_prices tables
    data_quality_metrics, \* data_quality_metrics table
    try_number,     \* attempts started so far, per task
    faults          \* failures the environment has injected into the run

decide_vars ==
    <<call, pc, symbol, instrument_type, query_result, config,
      em_ret, skip_ret, es_ret, args, ret>>

db_vars ==
    <<etl_jobs, etl_job_details, base_instruments, prices, data_quality_metrics>>

run_vars == <<params, task_state, xcom, try_number, faults>>

vars == <<decide_vars, context, today, run_vars, db_vars>>

\* ------------------------------------------------------------- input sets

Todays == (MaxAge + 1)..(MaxAge + MaxDays)

LogicalDates(t) == (t - MaxAge)..t

RunTypes == {"scheduled", "manual", "backfill"}

ModeValues == {Absent, "backfill", "incremental"}

ExtractionModes ==
    {Absent, "smart", "full_backfill", "historical", "incremental", "weekly"}

InstrumentsValues ==
    {NoInstruments,
     [kind |-> "other", map |-> <<>>],
     [kind |-> "dict", map |-> <<>>],
     [kind |-> "dict", map |-> [s \in {"XTB"} |-> "historical"]],
     [kind |-> "dict", map |-> [s \in {"XTB"} |-> "incremental"]],
     [kind |-> "dict", map |-> [s \in {"XTB"} |-> "smart"]]}

Confs ==
    {[mode |-> m, extraction_mode |-> x, instruments |-> i,
      date_range |-> Absent, batch_size |-> NoInt, schema |-> Absent] :
        m \in ModeValues, x \in ExtractionModes, i \in InstrumentsValues}
    \cup {[EmptyConf EXCEPT !.mode = "backfill", !.date_range = "range",
                            !.batch_size = 50]}

\* DagRun.is_backfill is Airflow's property run_type == 'backfill'.
DagRuns ==
    {NoDagRun} \cup
    {[present |-> TRUE, conf |-> c, run_type |-> rt,
      is_backfill |-> (rt = "backfill")] : c \in Confs, rt \in RunTypes}

\* ds and logical_date name the same date when present; either may be missing.
Contexts(t) ==
    {[ds |-> d, logical_date |-> d, dag_run |-> r] :
        d \in LogicalDates(t), r \in DagRuns}
    \cup {[ds |-> NoDate, logical_date |-> l, dag_run |-> r] :
        l \in LogicalDates(t) \cup {NoDate}, r \in DagRuns}

\* Selector runs: the logical date is today or MaxAge days old.
SelectorContexts(t) ==
    {c \in Contexts(t) : c.ds \in {t, t - MaxAge}}

SelectorSymbols == {<<"XTB", "stock">>, <<"WIG", "index">>}

QueryResults ==
    {FailedQuery, [ok |-> TRUE, record_count |-> 0, latest_date |-> NoDate]}
    \cup {[ok |-> TRUE, record_count |-> n, latest_date |-> a] :
            n \in {1, SparseRecords - 1, SparseRecords, SparseRecords + 10},
            a \in {3, StaleDays, StaleDays + 1}}

\* The result with latest_date an age in days turned into the date.
dated(q, t) ==
    IF q.latest_date = NoDate THEN q
    ELSE [q EXCEPT !.latest_date = t - q.latest_date]

SkipConfigs ==
    {[NoConfig EXCEPT !.mode = m, !.target_date = d,
                      !.is_trading_day = is_trading_day(d)] :
        m \in {"backfill", "incremental"}, d \in 0..(MaxAge + MaxDays)}

NoSkip == [should_skip |-> FALSE, reason |-> Absent, holiday |-> ""]

NoModeResult == [raised |-> FALSE, mode |-> Absent, config |-> NoConfig]

NoContext == [ds |-> NoDate, logical_date |-> NoDate, dag_run |-> NoDagRun]

NoArgs == <<>>

\* ---------------------------------------------- the functions, one call each

NoParams ==
    [environment |-> Absent, enable_validation |-> TRUE, stooq_available |-> TRUE]

NoExtract == [stocks |-> <<>>, indices |-> <<>>, status |-> Absent]

NoLoad ==
    [total_processed |-> NoInt, records_inserted |-> NoInt,
     records_updated |-> NoInt, total_failed |-> NoInt, success_rate |-> NoInt]

NoValidation ==
    [returned |-> FALSE, validation_skipped |-> FALSE, total_checks |-> 0,
     passed_checks |-> 0, failed_checks |-> 0]

NoSummary ==
    [job_id |-> 0, status |-> Absent, execution_date |-> NoDate,
     total_processed |-> NoInt, total_inserted |-> NoInt,
     total_updated |-> NoInt, total_failed |-> NoInt, success_rate |-> NoInt,
     validation_passed |-> 0, validation_failed |-> 0]

\* XCom of the run: the keys pushed by check_prerequisites and
\* finalize_etl_session and the return values of the other callables
\* (job_id 0 and the No... values: nothing pushed).
NoXCom ==
    [skip_reason |-> NoSkip, execution_config |-> NoConfig, branch |-> Absent,
     job_id |-> 0, extract_results |-> NoExtract, load_results |-> NoLoad,
     validation_results |-> NoValidation, final_summary |-> NoSummary]

\* No run of the DAG: no task instance, nothing pushed, empty tables.
NoRun ==
    /\ params = NoParams
    /\ task_state = [t \in Tasks |-> "none"]
    /\ try_number = [t \in Tasks |-> 0]
    /\ xcom = NoXCom
    /\ faults = 0
    /\ etl_jobs = <<>> /\ etl_job_details = <<>>
    /\ base_instruments = {} /\ prices = {} /\ data_quality_metrics = {}

InitResolver ==
    /\ call = "determine_execution_mode"
    /\ today \in Todays
    /\ context \in Contexts(today)
    /\ symbol = Absent /\ instrument_type = Absent
    /\ query_result = FailedQuery
    /\ config = NoConfig

InitSkip ==
    /\ call = "should_skip_execution"
    /\ today = NoDate
    /\ context = NoContext
    /\ symbol = Absent /\ instrument_type = Absent
    /\ query_result = FailedQuery
    /\ config \in SkipConfigs

InitSelector ==
    /\ call = "determine_extraction_strategy"
    /\ today \in Todays
    /\ context \in SelectorContexts(today)
    /\ \E st \in SelectorSymbols : symbol = st[1] /\ instrument_type = st[2]
    /\ \E q \in QueryResults : query_result = dated(q, today)
    /\ config = NoConfig

InitDecide ==
    /\ pc = "call"
    /\ em_ret = NoModeResult /\ skip_ret = NoSkip /\ es_ret = NoDecision
    /\ args = NoArgs /\ ret = NoArgs
    /\ (InitResolver \/ InitSkip \/ InitSelector)
    /\ NoRun

CallDetermineExecutionMode ==
    /\ pc = "call" /\ call = "determine_execution_mode"
    /\ em_ret' = determine_execution_mode(context, today)
    /\ pc' = "return"
    /\ UNCHANGED <<call, context, today, symbol, instrument_type, query_result,
                   config, skip_ret, es_ret>>
    /\ UNCHANGED <<args, ret, run_vars, db_vars>>

CallShouldSkipExecution ==
    /\ pc = "call" /\ call = "should_skip_execution"
    /\ skip_ret' = should_skip_execution(config)
    /\ pc' = "return"
    /\ UNCHANGED <<call, context, today, symbol, instrument_type, query_result,
                   config, em_ret, es_ret>>
    /\ UNCHANGED <<args, ret, run_vars, db_vars>>

CallDetermineExtractionStrategy ==
    /\ pc = "call" /\ call = "determine_extraction_strategy"
    /\ es_ret' = determine_extraction_strategy(symbol, instrument_type, context,
                                                query_result, today)
    /\ pc' = "return"
    /\ UNCHANGED <<call, context, today, symbol, instrument_type, query_result,
                   config, em_ret, skip_ret>>
    /\ UNCHANGED <<args, ret, run_vars, db_vars>>

\* check_execution_prerequisites hands the configuration the resolver
\* returned to the skip decision.
CallShouldSkipOnResolved ==
    /\ pc = "return" /\ call = "determine_execution_mode"
    /\ ~ em_ret.raised
    /\ skip_ret' = should_skip_execution(em_ret.config)
    /\ pc' = "checked"
    /\ UNCHANGED <<call, context, today, symbol, instrument_type, query_result,
                   config, em_ret, es_ret>>
    /\ UNCHANGED <<args, ret, run_vars, db_vars>>

NextDecide ==
    \/ CallDetermineExecutionMode
    \/ CallShouldSkipExecution
    \/ CallDetermineExtractionStrategy
    \/ CallShouldSkipOnResolved

SpecDecide == InitDecide /\ [][NextDecide]_vars

\* ------------------------------------------------------ the run: scheduling

Finished == {"success", "failed", "skipped", "upstream_failed"}

\* Variant: the rule none_failed on every task.
trigger_outcome_none_failed(t) ==
    IF {task_state[u] : u \in upstream_task_ids(t)}
            \cap {"failed", "upstream_failed"} # {}
    THEN "upstream_failed"
    ELSE "run"

\* What the scheduler does with a task whose upstream tasks have finished:
\* "run" it, or set it to "upstream_failed" or "skipped".
trigger_outcome(t) ==
    LET up == {task_state[u] : u \in upstream_task_ids(t)}
    IN  IF up \cap {"failed", "upstream_failed"} # {} THEN "upstream_failed"
        ELSE IF trigger_rule(t) = "all_success"
        THEN (IF "skipped" \in up THEN "skipped" ELSE "run")
        ELSE (IF "success" \in up THEN "run" ELSE "skipped")

Ready(t) ==
    /\ task_state[t] = "none"
    /\ \A u \in upstream_task_ids(t) : task_state[u] \in Finished

Runnable(t) == Ready(t) /\ trigger_outcome(t) = "run"

\* The callable returned.
succeeded(t) == [task_state EXCEPT ![t] = "success"]

\* The callable raised: up for retry while attempts remain, else failed.
raised(t) ==
    IF try_number[t] + 1 <= retries(params.environment) THEN task_state
    ELSE [task_state EXCEPT ![t] = "failed"]

attempted(t) == [try_number EXCEPT ![t] = @ + 1]

\* n more failures are injected, within the budget of the run.
inject(n) == faults + n <= MaxFaults /\ faults' = faults + n

failed_if(b) == IF b THEN 1 ELSE 0

\* A task that the trigger rule does not let run.
SchedulerSettle(t) ==
    /\ Ready(t)
    /\ trigger_outcome(t) # "run"
    /\ task_state' = [task_state EXCEPT ![t] = trigger_outcome(t)]
    /\ UNCHANGED <<decide_vars, context, today, params, xcom, try_number, faults,
                   db_vars>>

\* EmptyOperator skip_execution / proceed_with_etl.
RunEmptyOperator(t) ==
    /\ t \in {"skip_execution", "proceed_with_etl"}
    /\ Runnable(t)
    /\ task_state' = succeeded(t)
    /\ try_number' = attempted(t)
    /\ UNCHANGED <<decide_vars, context, today, params, xcom, faults, db_vars>>

\* ------------------------------------------------- check_prerequisites task

\* BranchPythonOperator: the callable's return value is the branch to follow;
\* the other directly downstream task is skipped.
check_execution_prerequisites ==
    /\ Runnable("check_prerequisites")
    /\ try_number' = attempted("check_prerequisites")
    /\ LET em == determine_execution_mode(context, today)
           skip == should_skip_execution(em.config)
       IN  IF em.raised
           THEN /\ task_state' = raised("check_prerequisites")
                /\ UNCHANGED xcom
           ELSE IF skip.should_skip
           THEN /\ xcom' = [xcom EXCEPT !.skip_reason = skip,
                                        !.branch = "skip_execution"]
                /\ task_state' = [task_state EXCEPT
                        !["check_prerequisites"] = "success",
                        !["proceed_with_etl"] = "skipped"]
           ELSE /\ xcom' = [xcom EXCEPT !.execution_config = em.config,
                                        !.branch = "proceed_with_etl"]
                /\ task_state' = [task_state EXCEPT
                        !["check_prerequisites"] = "success",
                        !["skip_execution"] = "skipped"]
    /\ UNCHANGED <<decide_vars, context, today, params, faults, db_vars>>

\* ------------------------------------------------------ create_etl_job task

job_type_of(execution_config) ==
    IF execution_config.mode = "backfill" THEN "historical_backfill"
    ELSE "daily_incremental"

new_job(execution_config) ==
    [status |-> "running",
     job_type |-> job_type_of(execution_config),
     target_date |-> execution_config.target_date,
     records_processed |-> NoInt, records_inserted |-> NoInt,
     records_updated |-> NoInt, records_failed |-> NoInt,
     error_message |-> Absent, completed |-> FALSE]

\* db_ok: the INSERT ... RETURNING id and its commit went through.
create_etl_job_record ==
    /\ Runnable("create_etl_job")
    /\ \E db_ok \in BOOLEAN :
            /\ try_number' = attempted("create_etl_job")
            /\ inject(failed_if(xcom.execution_config # NoConfig /\ ~ db_ok))
            /\ IF xcom.execution_config # NoConfig /\ db_ok
               THEN /\ etl_jobs' = Append(etl_jobs, new_job(xcom.execution_config))
                    /\ xcom' = [xcom EXCEPT !.job_id = Len(etl_jobs) + 1]
                    /\ task_state' = succeeded("create_etl_job")
               ELSE /\ task_state' = raised("create_etl_job")
                    /\ UNCHANGED <<etl_jobs, xcom>>
            /\ UNCHANGED <<decide_vars, context, today, params, etl_job_details,
                           base_instruments, prices, data_quality_metrics>>

\* ----------------------------------------------- extract_and_transform task

\* StooqRecord.calculate_hash: sha256 of ticker, date, prices and volume; the
\* digest stands for the content it is computed from.
calculate_hash(sym, d, p) == [ticker |-> sym, trading_date |-> d, price |-> p]

\* The hash literal of the mock records.
mock_hash == [ticker |-> "abc123def456", trading_date |-> NoDate, price |-> 0]

\* An extracted record: price stands for the open/high/low/close, volume and
\* adjusted close (index: market cap) values, which travel together;
\* data_source for the values no statement changes after the insert
\* (date and epoch columns, split factor, dividend amount, data source).
PriceRecord(sym, d, p) ==
    [symbol |-> sym, trading_date |-> d, price |-> p,
     data_source |-> "stooq", raw_data_hash |-> calculate_hash(sym, d, p)]

MockRecord(sym, d, p) ==
    [PriceRecord(sym, d, p) EXCEPT !.raw_data_hash = mock_hash]

_extract_mock_data(target_date) ==
    [stocks |-> <<MockRecord("XTB", target_date, 1),
                  MockRecord("PKN", target_date, 1)>>,
     indices |-> <<MockRecord("WIG", target_date, 1)>>]

\* sample_symbols of _extract_stooq_data, cut to its first NumSampled symbols
\* taken from the two lists in turn.
sample_symbols ==
    [stocks |-> SubSeq(<<"XTB", "CDR", "ELT", "DVL", "BDX", "PLW", "KTY", "PZU",
                         "RBW", "GPW">>, 1, (NumSampled + 1) \div 2),
     indices |-> SubSeq(<<"WIG", "WIG20", "MWIG40", "SWIG80">>, 1,
                        NumSampled \div 2)]

\* get_schema_from_context(context) = context['params']['schema']: the conf
\* names no other schema.
same_schema(ctx) == conf_of(ctx.dag_run).schema = Absent

\* The rows of one instrument in the price table of its type.
price_rows(ity, sym) ==
    {r \in prices : r.table = ity /\ r.symbol = sym}

RECURSIVE max_date(_)
max_date(S) ==
    IF S = {} THEN NoDate
    ELSE LET d == CHOOSE x \in S : TRUE
             m == max_date(S \ {d})
         IN  IF m > d THEN m ELSE d

\* The selector's aggregate over the stored history of sym.
history_query(ity, sym, ok) ==
    IF ~ ok THEN FailedQuery
    ELSE [ok |-> TRUE,
          record_count |-> Cardinality(price_rows(ity, sym)),
          latest_date |-> max_date({r.trading_date : r \in price_rows(ity, sym)})]

\* Variant: the cap keeps the head of the list.
records_to_process_head(strategy, max_records, data) ==
    IF strategy = "historical"
    THEN IF max_records = Unlimited \/ Len(data) <= max_records THEN data
         ELSE SubSeq(data, 1, max_records)
    ELSE <<data[Len(data)]>>

\* The slice of the fetched, non-empty list the decision lets through:
\* data[-max_records:] (the whole list for max_records = 0) or data[-1].
records_to_process(strategy, max_records, data) ==
    IF strategy = "historical"
    THEN IF max_records = Unlimited THEN data
         ELSE IF Len(data) > max_records /\ max_records # 0
              THEN SubSeq(data, Len(data) - max_records + 1, Len(data))
              ELSE data
    ELSE <<data[Len(data)]>>

\* What one iteration appends to extracted_data for the list extract_symbol
\* returned: nothing for the empty list.
forwarded_records(sym, strategy, max_records, fetch) ==
    IF Len(fetch) = 0 THEN <<>>
    ELSE [i \in 1..Len(records_to_process(strategy, max_records, fetch))
            |-> [records_to_process(strategy, max_records, fetch)[i]
                    EXCEPT !.symbol = sym]]

\* One symbol of the loop: fetch is what extract_symbol returned (the empty
\* list when the download or the parsing failed); an exception of the
\* selector is logged and the symbol dropped.
extract_one(sym, ity, ctx, t, query_ok, fetch) ==
    LET decision == determine_extraction_strategy(
                        sym, ity, ctx, history_query(ity, sym, query_ok), t)
    IN  IF decision.raised THEN <<>>
        ELSE forwarded_records(sym, decision.strategy, decision.max_records,
                               fetch)

RECURSIVE extract_all(_, _, _, _, _, _)
extract_all(symbols, ity, ctx, t, query_ok, fetch) ==
    IF symbols = <<>> THEN <<>>
    ELSE extract_one(Head(symbols), ity, ctx, t, query_ok[Head(symbols)],
                     fetch[Head(symbols)])
         \o extract_all(Tail(symbols), ity, ctx, t, query_ok, fetch)

_extract_stooq_data(ctx, t, query_ok, fetch) ==
    [stocks |-> extract_all(sample_symbols.stocks, "stock", ctx, t, query_ok, fetch),
     indices |-> extract_all(sample_symbols.indices, "index", ctx, t, query_ok,
                             fetch)]

\* UPDATE etl_jobs SET status = 'failed', error_message = ... WHERE id = job_id
mark_job_failed(jobs, job_id, message) ==
    IF job_id \in DOMAIN jobs
    THEN [jobs EXCEPT ![job_id].status = "failed",
                      ![job_id].error_message = message]
    ELSE jobs

Sampled ==
    {sample_symbols.stocks[i] : i \in 1..Len(sample_symbols.stocks)}
    \cup {sample_symbols.indices[i] : i \in 1..Len(sample_symbols.indices)}

\* The last n trading days before day t, oldest first.
RECURSIVE sessions_before(_, _)
sessions_before(t, n) ==
    IF n = 0 THEN <<>>
    ELSE Append(sessions_before(get_previous_trading_day(t), n - 1),
                get_previous_trading_day(t))

\* What extract_symbol returns for one symbol: the records of the last n
\* trading days in the order of the file, none when the download failed.
Fetches(sym, t) ==
    {[i \in 1..n |-> PriceRecord(sym, sessions_before(t, n)[i], 2)] :
        n \in 0..MaxFetched}

\* The outcomes of the downloads, per sampled symbol.
FetchOutcomes(t) ==
    {f \in [Sampled -> UNION {Fetches(x, t) : x \in Sampled}] :
        \A x \in Sampled : f[x] \in Fetches(x, t)}

\* query_ok, fetch: per symbol, the outcome of the history query and of the
\* download; the second last branch: StooqExtractor() or a statement outside
\* the loops raises; handler_ok: the UPDATE of the except block went through.
extract_and_transform_data ==
    /\ Runnable("extract_and_transform")
    /\ try_number' = attempted("extract_and_transform")
    /\ LET target_date == xcom.execution_config.target_date
           marks == xcom.job_id # 0 /\ same_schema(context)
           raises(handler_ok) ==
               /\ etl_jobs' = IF marks /\ handler_ok
                              THEN mark_job_failed(etl_jobs, xcom.job_id,
                                                   "exception")
                              ELSE etl_jobs
               /\ task_state' = raised("extract_and_transform")
               /\ UNCHANGED xcom
           returns(data) ==
               /\ xcom' = [xcom EXCEPT !.extract_results =
                            [stocks |-> data.stocks, indices |-> data.indices,
                             status |-> "success"]]
               /\ task_state' = succeeded("extract_and_transform")
               /\ UNCHANGED etl_jobs
       IN  IF params.environment = "dev"
           THEN inject(0) /\ returns(_extract_mock_data(target_date))
           ELSE IF ~ params.stooq_available
           THEN \E handler_ok \in BOOLEAN :
                    /\ inject(failed_if(marks /\ ~ handler_ok))
                    /\ raises(handler_ok)
           ELSE \/ \E handler_ok \in BOOLEAN :
                    /\ inject(1 + failed_if(marks /\ ~ handler_ok))
                    /\ raises(handler_ok)
                \/ \E query_ok \in [Sampled -> BOOLEAN],
                      fetch \in FetchOutcomes(today) :
                    /\ inject(0)
                    /\ returns(_extract_stooq_data(context, today, query_ok,
                                                   fetch))
    /\ UNCHANGED <<decide_vars, context, today, params, etl_job_details,
                   base_instruments, prices, data_quality_metrics>>

\* ------------------------------------------------------------ load_data task

\* The tables the load loop writes, and its counters.
LoadState(instruments, rows, details, inserted, updated, failed) ==
    [base_instruments |-> instruments, prices |-> rows, details |-> details,
     records_inserted |-> inserted, records_updated |-> updated,
     records_failed |-> failed]

\* SELECT id FROM base_instruments WHERE symbol = .. AND instrument_type = ..
\* (for an index: JOIN indices): the instrument's row, if it is found.
find_instrument(instruments, ity, sym) ==
    {b \in instruments :
        /\ b.symbol = sym /\ b.instrument_type = ity
        /\ (ity = "index" => b.has_type_row)}

\* INSERT INTO base_instruments violates UNIQUE (symbol, exchange_id) when a
\* row of that symbol exists.
symbol_taken(instruments, sym) ==
    \E b \in instruments : b.symbol = sym

\* The instrument rows after get-or-create of the base row and of the
\* stocks / indices row.
with_instrument(instruments, ity, sym) ==
    {b \in instruments : b.symbol # sym}
    \cup {[symbol |-> sym, instrument_type |-> ity, has_type_row |-> TRUE]}

\* The row an INSERT of rec adds to the price table of its type.
price_row(ity, rec) ==
    [table |-> ity, symbol |-> rec.symbol, trading_date |-> rec.trading_date,
     price |-> rec.price, data_source |-> rec.data_source,
     raw_data_hash |-> rec.raw_data_hash]

same_key(r, ity, rec) ==
    r.table = ity /\ r.symbol = rec.symbol /\ r.trading_date = rec.trading_date

\* Variant: the conflicting row is kept and the new row added.
upsert_price_append(rows, ity, rec) == rows \cup {price_row(ity, rec)}

\* Variant: DO UPDATE SET of the price and volume columns only.
upsert_price_values_only(rows, ity, rec) ==
    IF \E r \in rows : same_key(r, ity, rec)
    THEN {IF same_key(r, ity, rec) THEN [r EXCEPT !.price = rec.price] ELSE r :
            r \in rows}
    ELSE rows \cup {price_row(ity, rec)}

\* INSERT ... ON CONFLICT (id, trading_date_local) DO UPDATE SET the price,
\* volume and adjusted close columns and raw_data_hash: the row of the key
\* takes these from the incoming record, or the record's row is added.
upsert_price(rows, ity, rec) ==
    IF \E r \in rows : same_key(r, ity, rec)
    THEN {IF same_key(r, ity, rec)
          THEN [r EXCEPT !.price = rec.price,
                         !.raw_data_hash = rec.raw_data_hash]
          ELSE r : r \in rows}
    ELSE rows \cup {price_row(ity, rec)}

\* cursor.rowcount after the upsert: one row inserted or updated.
upsert_rowcount == 1

detail_row(job_id, ity, rec, status) ==
    [job_id |-> job_id, symbol |-> rec.symbol, instrument_type |-> ity,
     target_date |-> rec.trading_date,
     records_processed |-> IF status = "completed" THEN 1 ELSE 0,
     status |-> status]

\* Variant: the instrument rows are committed before the upsert, so a failed
\* iteration keeps the rows it created.
load_one_keeps_instrument(st, job_id, ity, rec, fails, log_fails) ==
    IF fails
    THEN [st EXCEPT
            !.base_instruments = with_instrument(@, ity, rec.symbol),
            !.records_failed = @ + 1,
            !.details = IF log_fails THEN @
                        ELSE Append(@, detail_row(job_id, ity, rec, "failed"))]
    ELSE [st EXCEPT
            !.base_instruments = with_instrument(@, ity, rec.symbol),
            !.prices = upsert_price(@, ity, rec),
            !.records_inserted = @ + 1,
            !.details = Append(@, detail_row(job_id, ity, rec, "completed"))]

\* Variant: a failed iteration leaves no detail row.
load_one_unlogged(st, job_id, ity, rec, fails, log_fails) ==
    IF fails THEN [st EXCEPT !.records_failed = @ + 1]
    ELSE [st EXCEPT
            !.base_instruments = with_instrument(@, ity, rec.symbol),
            !.prices = upsert_price(@, ity, rec),
            !.records_inserted = @ + 1,
            !.details = Append(@, detail_row(job_id, ity, rec, "completed"))]

\* One iteration of the loop.  fails: a statement of the try block raises
\* (the INSERT of a symbol already taken always does); log_fails: the INSERT
\* of the error detail raises too.  A failure rolls the iteration back.
load_one(st, job_id, ity, rec, fails, log_fails) ==
    LET found == find_instrument(st.base_instruments, ity, rec.symbol) # {}
        conflict == ~ found /\ symbol_taken(st.base_instruments, rec.symbol)
    IN  IF fails \/ conflict
        THEN [st EXCEPT
                !.records_failed = @ + 1,
                !.details = IF log_fails THEN @
                            ELSE Append(@, detail_row(job_id, ity, rec, "failed"))]
        ELSE [st EXCEPT
                !.base_instruments = with_instrument(@, ity, rec.symbol),
                !.prices = upsert_price(@, ity, rec),
                !.records_inserted = IF upsert_rowcount > 0 THEN @ + 1 ELSE @,
                !.records_updated = IF upsert_rowcount > 0 THEN @ ELSE @ + 1,
                !.details = Append(@, detail_row(job_id, ity, rec, "completed"))]

\* items: the stock records followed by the index records, each with its
\* type; i: the position in items, which fails and log_fails are sets of.
RECURSIVE load_all(_, _, _, _, _, _)
load_all(st, job_id, items, i, fails, log_fails) ==
    IF i > Len(items) THEN st
    ELSE load_all(load_one(st, job_id, items[i].ity, items[i].rec,
                           i \in fails, i \in log_fails),
                  job_id, items, i + 1, fails, log_fails)

load_items(extract_results) ==
    [i \in 1..Len(extract_results.stocks) |->
        [ity |-> "stock", rec |-> extract_results.stocks[i]]]
    \o [i \in 1..Len(extract_results.indices) |->
        [ity |-> "index", rec |-> extract_results.indices[i]]]

success_rate_of(inserted, updated, total_processed) ==
    IF total_processed > 0
    THEN ((inserted + updated) * 100) \div total_processed
    ELSE 0

\* connect_ok: the connection and the reference data statements went through;
\* fails, log_fails: the iterations that raise; update_ok: the final UPDATE
\* of the job's counters went through.
load_data_to_database ==
    /\ Runnable("load_data")
    /\ \E connect_ok \in BOOLEAN, update_ok \in BOOLEAN,
          fails \in SUBSET (1..Len(load_items(xcom.extract_results))) :
          \E log_fails \in SUBSET fails :
            /\ try_number' = attempted("load_data")
            /\ inject(IF ~ connect_ok THEN 1
                      ELSE Cardinality(fails) + Cardinality(log_fails)
                           + failed_if(~ update_ok))
            /\ LET job_id == xcom.job_id
                   items == load_items(xcom.extract_results)
                   st == load_all(LoadState(base_instruments, prices, etl_job_details,
                                            0, 0, 0),
                                  job_id, items, 1, fails, log_fails)
                   total_processed == st.records_inserted + st.records_updated
                                      + st.records_failed
               IN  IF ~ connect_ok
                   THEN /\ task_state' = raised("load_data")
                        /\ UNCHANGED <<xcom, etl_jobs, etl_job_details, base_instruments,
                                       prices>>
                   ELSE /\ base_instruments' = st.base_instruments
                        /\ prices' = st.prices
                        /\ etl_job_details' = st.details
                        /\ IF update_ok
                           THEN /\ etl_jobs' =
                                    IF job_id \in DOMAIN etl_jobs
                                    THEN [etl_jobs EXCEPT
                                            ![job_id].records_processed = total_processed,
                                            ![job_id].records_inserted = st.records_inserted,
                                            ![job_id].records_updated = st.records_updated,
                                            ![job_id].records_failed = st.records_failed]
                                    ELSE etl_jobs
                                /\ xcom' = [xcom EXCEPT !.load_results =
                                      [total_processed |-> total_processed,
                                       records_inserted |-> st.records_inserted,
                                       records_updated |-> st.records_updated,
                                       total_failed |-> st.records_failed,
                                       success_rate |-> success_rate_of(
                                            st.records_inserted, st.records_updated,
                                            total_processed)]]
                                /\ task_state' = succeeded("load_data")
                           ELSE /\ task_state' = raised("load_data")
                                /\ UNCHANGED <<xcom, etl_jobs>>
            /\ UNCHANGED <<decide_vars, context, today, params, data_quality_metrics>>

\* ------------------------------------------------ validate_data_quality task

quality_checks == <<"price_gap_check", "ohlc_consistency", "volume_consistency">>

\* The rows a check's query returns: the stock prices of target_date.
checked_rows(target_date) ==
    {r \in prices : r.table = "stock" /\ r.trading_date = target_date}

\* The counters after the checks from position i on.  raising: the position
\* of the first check whose query raises (0: none); the statements after it
\* raise as well, the transaction being aborted.  invalid: the checks whose
\* metric is out of its threshold.
RECURSIVE run_checks(_, _, _, _, _)
run_checks(results, i, n, raising, invalid) ==
    IF i > Len(quality_checks) THEN results
    ELSE run_checks(
            IF raising # 0 /\ i >= raising
            THEN [results EXCEPT !.failed_checks = @ + 1]
            ELSE [results EXCEPT
                    !.total_checks = @ + n,
                    !.passed_checks =
                        IF quality_checks[i] \in invalid THEN @ ELSE @ + n,
                    !.failed_checks =
                        IF quality_checks[i] \in invalid THEN @ + n ELSE @],
            i + 1, n, raising, invalid)

metric_rows(job_id, target_date, invalid) ==
    {[job_id |-> job_id, symbol |-> r.symbol, metric_name |-> quality_checks[i],
      is_valid |-> quality_checks[i] \notin invalid] :
        r \in checked_rows(target_date), i \in 1..Len(quality_checks)}

\* connect_ok: the connection was opened.
validate_data_quality ==
    /\ Runnable("validate_data_quality")
    /\ \E connect_ok \in BOOLEAN, raising \in 0..Len(quality_checks),
          invalid \in SUBSET {"ohlc_consistency"} :
            /\ try_number' = attempted("validate_data_quality")
            /\ LET target_date == xcom.execution_config.target_date
                   started == [NoValidation EXCEPT !.returned = TRUE]
               IN  IF ~ params.enable_validation
                   THEN /\ inject(0)
                        /\ xcom' = [xcom EXCEPT !.validation_results =
                                        [started EXCEPT !.validation_skipped = TRUE]]
                        /\ task_state' = succeeded("validate_data_quality")
                        /\ UNCHANGED data_quality_metrics
                   ELSE IF ~ connect_ok
                   THEN /\ inject(1)
                        /\ task_state' = raised("validate_data_quality")
                        /\ UNCHANGED <<xcom, data_quality_metrics>>
                   ELSE /\ inject(failed_if(raising # 0))
                        /\ xcom' = [xcom EXCEPT !.validation_results =
                                        run_checks(started, 1,
                                                   Cardinality(checked_rows(target_date)),
                                                   raising, invalid)]
                        /\ data_quality_metrics' =
                                IF raising # 0 THEN data_quality_metrics
                                ELSE data_quality_metrics
                                     \cup metric_rows(xcom.job_id, target_date, invalid)
                        /\ task_state' = succeeded("validate_data_quality")
            /\ UNCHANGED <<decide_vars, context, today, params, etl_jobs, etl_job_details,
                           base_instruments, prices>>

\* ------------------------------------------------- finalize_etl_session task

final_status_of(load_results) ==
    IF load_results.total_failed > 0
    THEN (IF load_results.success_rate < 50 THEN "failed" ELSE "completed")
    ELSE "completed"

\* UPDATE etl_jobs SET status = .., completed_at = .. WHERE id = job_id
complete_job(jobs, job_id, final_status) ==
    IF job_id \in DOMAIN jobs
    THEN [jobs EXCEPT ![job_id].status = final_status,
                      ![job_id].completed = TRUE]
    ELSE jobs

\* fail_point: where the try block raises: "before_commit" of the job's
\* update, "after_commit", or "none"; handler_ok: the UPDATE of the except
\* block went through.
finalize_etl_session ==
    /\ Runnable("finalize_etl_session")
    /\ \E fail_point \in {"none", "before_commit", "after_commit"},
          handler_ok \in BOOLEAN :
            /\ try_number' = attempted("finalize_etl_session")
            /\ LET job_id == xcom.job_id
                   load_results == xcom.load_results
                   final_status == final_status_of(load_results)
                   updated == IF job_id # 0 /\ fail_point # "before_commit"
                              THEN complete_job(etl_jobs, job_id, final_status)
                              ELSE etl_jobs
               IN  IF fail_point = "none"
                   THEN /\ inject(0)
                        /\ etl_jobs' = updated
                        /\ xcom' = [xcom EXCEPT !.final_summary =
                                [job_id |-> job_id, status |-> final_status,
                                 execution_date |-> context.ds,
                                 total_processed |-> load_results.total_processed,
                                 total_inserted |-> load_results.records_inserted,
                                 total_updated |-> load_results.records_updated,
                                 total_failed |-> load_results.total_failed,
                                 success_rate |-> load_results.success_rate,
                                 validation_passed |->
                                      xcom.validation_results.passed_checks,
                                 validation_failed |->
                                      xcom.validation_results.failed_checks]]
                        /\ task_state' = succeeded("finalize_etl_session")
                   ELSE /\ inject(1 + failed_if(job_id # 0 /\ ~ handler_ok))
                        /\ etl_jobs' = IF job_id # 0 /\ handler_ok
                                       THEN mark_job_failed(updated, job_id, "exception")
                                       ELSE updated
                        /\ task_state' = raised("finalize_etl_session")
                        /\ UNCHANGED xcom
            /\ UNCHANGED <<decide_vars, context, today, params, etl_job_details,
                           base_instruments, prices, data_quality_metrics>>

\* ------------------------------------------------------------------ the run

PipelineTodays == (MaxAge + 6)..(MaxAge + 5 + MaxRunDays)

\* The runs of the DAG: a context without dag_run, a scheduled and a manual
\* run without conf, and a scheduled run whose conf overrides the extraction
\* mode and names another schema.
PipelineDagRuns ==
    {NoDagRun,
     [present |-> TRUE, conf |-> EmptyConf, run_type |-> "scheduled",
      is_backfill |-> FALSE],
     [present |-> TRUE, conf |-> EmptyConf, run_type |-> "manual",
      is_backfill |-> FALSE],
     [present |-> TRUE,
      conf |-> [EmptyConf EXCEPT !.extraction_mode = "historical",
                                 !.schema = "other"],
      run_type |-> "scheduled", is_backfill |-> FALSE]}

\* The logical date is one of the last three days or MaxAge days old.
PipelineContexts(t) ==
    {[ds |-> d, logical_date |-> d, dag_run |-> r] :
        d \in ((t - 2)..t) \cup {t - MaxAge}, r \in PipelineDagRuns}

\* dev loads the mock data; test downloads from Stooq, with and without
\* validation; prod is deployed without the Stooq modules.
Params ==
    {[environment |-> "dev", enable_validation |-> TRUE, stooq_available |-> TRUE],
     [environment |-> "test", enable_validation |-> TRUE, stooq_available |-> TRUE],
     [environment |-> "test", enable_validation |-> FALSE, stooq_available |-> TRUE],
     [environment |-> "prod", enable_validation |-> TRUE, stooq_available |-> FALSE]}

\* The tables before the run: empty, or XTB loaded from a file up to the day
\* before.
Databases(t) ==
    {[base_instruments |-> {}, prices |-> {}],
     [base_instruments |->
        {[symbol |-> "XTB", instrument_type |-> "stock", has_type_row |-> TRUE]},
      prices |-> {[table |-> "stock", symbol |-> "XTB",
                   trading_date |-> t - 1, price |-> 1,
                   data_source |-> "file",
                   raw_data_hash |-> calculate_hash("XTB", t - 1, 1)]}]}

Idle ==
    /\ call = Absent /\ pc = "run"
    /\ symbol = Absent /\ instrument_type = Absent
    /\ query_result = FailedQuery /\ config = NoConfig
    /\ em_ret = NoModeResult /\ skip_ret = NoSkip /\ es_ret = NoDecision
    /\ args = NoArgs /\ ret = NoArgs

Init ==
    /\ Idle
    /\ today \in PipelineTodays
    /\ context \in PipelineContexts(today)
    /\ params \in Params
    /\ task_state = [t \in Tasks |-> "none"]
    /\ try_number = [t \in Tasks |-> 0]
    /\ xcom = NoXCom
    /\ faults = 0
    /\ etl_jobs = <<>> /\ etl_job_details = <<>> /\ data_quality_metrics = {}
    /\ \E db \in Databases(today) :
            base_instruments = db.base_instruments /\ prices = db.prices

Next ==
    \/ \E t \in Tasks : SchedulerSettle(t)
    \/ \E t \in Tasks : RunEmptyOperator(t)
    \/ check_execution_prerequisites
    \/ create_etl_job_record
    \/ extract_and_transform_data
    \/ load_data_to_database
    \/ validate_data_quality
    \/ finalize_etl_session

Spec == Init /\ [][Next]_vars

\* ------------------------------------------- further functions, one call each

\* No resolver, skip or selector call and no run of the DAG.
NoCall ==
    /\ today = NoDate /\ context = NoContext
    /\ symbol = Absent /\ instrument_type = Absent
    /\ query_result = FailedQuery /\ config = NoConfig
    /\ em_ret = NoModeResult /\ skip_ret = NoSkip /\ es_ret = NoDecision
    /\ ret = NoArgs
    /\ params = NoParams
    /\ task_state = [t \in Tasks |-> "none"]
    /\ try_number = [t \in Tasks |-> 0]
    /\ xcom = NoXCom
    /\ faults = 0
    /\ etl_jobs = <<>> /\ etl_job_details = <<>> /\ data_quality_metrics = {}

call_frame ==
    <<call, args, symbol, instrument_type, query_result, config, em_ret,
      skip_ret, es_ret, context, today, run_vars>>

\* The list extract_symbol returns, oldest record first: n daily records.
FetchedList(sym, n) == [i \in 1..n |-> PriceRecord(sym, i, i)]

\* The caps a decision carries, and small ones.
Caps == {Unlimited, StaleCap, GenerousCap} \cup (1..MaxCap)

InitForwardedRecords ==
    /\ call = "forwarded_records"
    /\ \E st \in SelectorSymbols, strategy \in {"historical", "incremental"},
          max_records \in Caps, n \in 0..MaxLen :
            args = [symbol |-> st[1], strategy |-> strategy,
                    max_records |-> max_records,
                    fetch |-> FetchedList(st[1], n)]
    /\ base_instruments = {} /\ prices = {}

CallForwardedRecords ==
    /\ pc = "call" /\ call = "forwarded_records"
    /\ ret' = forwarded_records(args.symbol, args.strategy, args.max_records,
                                args.fetch)
    /\ pc' = "return"
    /\ UNCHANGED <<call_frame, db_vars>>

Min(a, b) == IF a < b THEN a ELSE b

\* The day the batches under call are dated.
BatchDay == MaxAge

\* The extracted data of a batch: ns stock and ni index records of BatchDay.
Batch(ns, ni) ==
    [stocks |-> [i \in 1..ns |->
                    PriceRecord(<<"XTB", "CDR", "ELT">>[i], BatchDay, 2)],
     indices |-> [i \in 1..ni |->
                    PriceRecord(<<"WIG", "WIG20">>[i], BatchDay, 2)]]

\* What a historical decision forwards for one stock: its records of the
\* last two days.
HistoricalBatch ==
    [stocks |-> forwarded_records("XTB", "historical", GenerousCap,
                                  <<PriceRecord("XTB", BatchDay - 1, 2),
                                    PriceRecord("XTB", BatchDay, 2)>>),
     indices |-> <<>>]

Batches ==
    {Batch(ns, ni) : ns \in 0..Min(3, MaxBatch), ni \in 0..Min(2, MaxBatch)}
    \cup {HistoricalBatch}

\* The loop of load_data_to_database over a batch, on tables that hold
\* nothing or XTB's row of BatchDay; any of its iterations may raise.
InitLoadAll ==
    /\ call = "load_all"
    /\ \E data \in Batches, db \in Databases(BatchDay + 1) :
        \E fails \in SUBSET (1..Len(load_items(data))) :
        \E log_fails \in SUBSET fails :
            /\ Len(load_items(data)) \in 1..MaxBatch
            /\ args = [job_id |-> 1, items |-> load_items(data),
                       fails |-> fails, log_fails |-> log_fails,
                       prices |-> db.prices,
                       base_instruments |-> db.base_instruments]
            /\ base_instruments = db.base_instruments
            /\ prices = db.prices

CallLoadAll ==
    /\ pc = "call" /\ call = "load_all"
    /\ LET st == load_all(LoadState(base_instruments, prices, etl_job_details,
                                    0, 0, 0),
                          args.job_id, args.items, 1, args.fails, args.log_fails)
       IN  /\ base_instruments' = st.base_instruments
           /\ prices' = st.prices
           /\ etl_job_details' = st.details
           /\ ret' = [records_inserted |-> st.records_inserted,
                      records_updated |-> st.records_updated,
                      records_failed |-> st.records_failed]
    /\ pc' = "return"
    /\ UNCHANGED <<call_frame, etl_jobs, data_quality_metrics>>

\* The records handed to the upsert: of a stock and of an index, of two
\* days and two values, downloaded or mock.
UpsertRecords ==
    {[ity |-> x[1], rec |-> PriceRecord(x[2], d, p)] :
        x \in {<<"stock", "XTB">>, <<"index", "WIG">>},
        d \in {BatchDay - 1, BatchDay}, p \in 1..2}
    \cup {[ity |-> "stock", rec |-> MockRecord("XTB", BatchDay, p)] : p \in 1..2}

\* A sequence of upserts on tables that hold nothing or XTB's row of
\* BatchDay.  args: the number of upserts done, the last record, whether it
\* is the record of the upsert before, and the rows before it.
InitUpsertPrice ==
    /\ call = "upsert_price"
    /\ \E db \in Databases(BatchDay + 1), first \in UpsertRecords :
            /\ args = [count |-> 0, ity |-> first.ity, rec |-> first.rec,
                       again |-> FALSE, before |-> db.prices]
            /\ base_instruments = db.base_instruments
            /\ prices = db.prices

CallUpsertPrice ==
    /\ call = "upsert_price"
    /\ args.count < MaxUpserts
    /\ \E next \in UpsertRecords :
            /\ args.count = 0 => next = [ity |-> args.ity, rec |-> args.rec]
            /\ prices' = upsert_price(prices, next.ity, next.rec)
            /\ args' = [count |-> args.count + 1, ity |-> next.ity,
                        rec |-> next.rec,
                        again |-> args.count > 0 /\ next.ity = args.ity
                                  /\ next.rec = args.rec,
                        before |-> prices]
    /\ pc' = "return"
    /\ UNCHANGED <<call, symbol, instrument_type, query_result, config, em_ret,
                   skip_ret, es_ret, ret, context, today, run_vars, etl_jobs,
                   etl_job_details, base_instruments, data_quality_metrics>>

\* The calendar lookup of one day of the window.
InitIsTradingDay ==
    /\ call = "is_trading_day"
    /\ \E check_date \in 0..MaxDays : args = [check_date |-> check_date]
    /\ base_instruments = {} /\ prices = {}

CallIsTradingDay ==
    /\ pc = "call" /\ call = "is_trading_day"
    /\ ret' = is_trading_day(args.check_date)
    /\ pc' = "return"
    /\ UNCHANGED <<call_frame, db_vars>>

\* The neighbouring trading days of one day of the window.
InitTradingDayNeighbours ==
    /\ call \in {"get_previous_trading_day", "get_next_trading_day"}
    /\ \E reference_date \in 0..MaxDays :
            args = [reference_date |-> reference_date]
    /\ base_instruments = {} /\ prices = {}

CallGetPreviousTradingDay ==
    /\ pc = "call" /\ call = "get_previous_trading_day"
    /\ ret' = get_previous_trading_day(args.reference_date)
    /\ pc' = "return"
    /\ UNCHANGED <<call_frame, db_vars>>

CallGetNextTradingDay ==
    /\ pc = "call" /\ call = "get_next_trading_day"
    /\ ret' = get_next_trading_day(args.reference_date)
    /\ pc' = "return"
    /\ UNCHANGED <<call_frame, db_vars>>

\* Two invocations of the resolver, one after the other, on the same run
\* context and day.  args: the context and the day handed over and the
\* context as it is after the invocations so far; ret: the first result.
InitResolverTwice ==
    /\ call = "determine_execution_mode"
    /\ \E t \in PipelineTodays :
        \E ctx \in Contexts(t) :
            args = [context |-> ctx, today |-> t, context_now |-> ctx]
    /\ base_instruments = {} /\ prices = {}

CallResolverFirst ==
    /\ pc = "call" /\ call = "determine_execution_mode"
    /\ ret' = determine_execution_mode(args.context_now, args.today)
    /\ args' = [args EXCEPT !.context_now = context_after(@)]
    /\ pc' = "again"
    /\ UNCHANGED <<call, symbol, instrument_type, query_result, config, em_ret,
                   skip_ret, es_ret, context, today, run_vars, db_vars>>

CallResolverAgain ==
    /\ pc = "again" /\ call = "determine_execution_mode"
    /\ em_ret' = determine_execution_mode(args.context_now, args.today)
    /\ args' = [args EXCEPT !.context_now = context_after(@)]
    /\ pc' = "return"
    /\ UNCHANGED <<call, symbol, instrument_type, query_result, config, ret,
                   skip_ret, es_ret, context, today, run_vars, db_vars>>

\* The CLI load of the extraction results of two symbols.  Per symbol the
\* inputs are: per record whether insert_stock_price / insert_index_price
\* returned True (they catch their own exceptions and return False); what
\* the instrument step does (the instrument is found, is found without its
\* stock or index row, is created, or the creation raises); whether the
\* detail-row insert raises.
SymbolInputs ==
    { [records |-> rs, instrument |-> i, detail_raises |-> d] :
        rs \in UNION { [1..n -> BOOLEAN] : n \in 0..MaxSymbolRecords },
        i \in {"found", "invalid", "created", "create_raises"},
        d \in BOOLEAN }

\* Number of records of rs[1..n] whose insert returned True.
RECURSIVE successes(_, _)
successes(rs, n) ==
    IF n = 0 THEN 0
    ELSE successes(rs, n - 1) + (IF rs[n] THEN 1 ELSE 0)

\* process_symbol_data: <<processed, inserted, failed>>.
process_symbol_data(inp) ==
    IF inp.instrument = "create_raises"
    THEN \* raised before the record loop: processed is still 0
         <<0, 0, 0>>
    ELSE LET processed == Len(inp.records)
             inserted  == IF inp.instrument = "invalid" THEN 0
                          ELSE successes(inp.records, processed)
             failed    == processed - inserted
         IN  IF inp.detail_raises
             THEN <<processed, 0, processed>>
             ELSE <<processed, inserted, failed>>

\* load_sample_data from the loop over the results on: the counts of each
\* symbol with records, their totals and the job's final status.
load_sample_data(results) ==
    LET counts == [k \in 1..Len(results) |->
                      IF Len(results[k].records) = 0 THEN <<0, 0, 0>>
                      ELSE process_symbol_data(results[k])]
        total_processed == counts[1][1] + counts[2][1]
        total_inserted  == counts[1][2] + counts[2][2]
        total_failed    == counts[1][3] + counts[2][3]
    IN  [counts |-> counts,
         total_processed |-> total_processed,
         total_inserted |-> total_inserted,
         total_failed |-> total_failed,
         final_status |-> IF total_failed = 0 THEN "completed" ELSE "failed"]

InitLoadSampleData ==
    /\ call = "load_sample_data"
    /\ \E a \in SymbolInputs, b \in SymbolInputs : args = [results |-> <<a, b>>]
    /\ base_instruments = {} /\ prices = {}

CallLoadSampleData ==
    /\ pc = "call" /\ call = "load_sample_data"
    /\ ret' = load_sample_data(args.results)
    /\ pc' = "return"
    /\ UNCHANGED <<call_frame, db_vars>>

\* One run from the prerequisite check to the selector call of the
\* extraction task, for one symbol.  args: the run context, the calendar day
\* on which check_prerequisites executes and the day on which
\* extract_and_transform executes (the same day or, when the run passes
\* midnight, the next), and the outcome of the selector's history query.
InitCheckThenExtract ==
    /\ call = "check_execution_prerequisites"
    /\ \E t \in PipelineTodays, st \in SelectorSymbols :
        \E ctx \in Contexts(t), extraction_day \in {t, t + 1},
           q \in {FailedQuery,
                  [ok |-> TRUE, record_count |-> 0, latest_date |-> NoDate]} :
            args = [context |-> ctx, symbol |-> st[1],
                    instrument_type |-> st[2], check_day |-> t,
                    extraction_day |-> extraction_day, query_result |-> q]
    /\ base_instruments = {} /\ prices = {}

\* check_execution_prerequisites: resolves the mode, decides on skipping and
\* stores the configuration for the downstream tasks.
CallCheckExecutionPrerequisites ==
    /\ pc = "call" /\ call = "check_execution_prerequisites"
    /\ LET em == determine_execution_mode(args.context, args.check_day)
       IN  /\ em_ret' = em
           /\ IF em.raised
              THEN skip_ret' = skip_ret /\ pc' = "failed"
              ELSE /\ skip_ret' = should_skip_execution(em.config)
                   /\ pc' = IF skip_ret'.should_skip THEN "skip_execution"
                            ELSE "proceed_with_etl"
    /\ UNCHANGED <<call, args, symbol, instrument_type, query_result, config,
                   es_ret, ret, context, today, run_vars, db_vars>>

\* The selector call of the extraction task, on the day the task executes.
CallSelectorAtExtraction ==
    /\ pc = "proceed_with_etl" /\ call = "check_execution_prerequisites"
    /\ es_ret' = determine_extraction_strategy(args.symbol,
                    args.instrument_type, args.context, args.query_result,
                    args.extraction_day)
    /\ pc' = "return"
    /\ UNCHANGED <<call, args, symbol, instrument_type, query_result, config,
                   em_ret, skip_ret, ret, context, today, run_vars, db_vars>>

InitCalls ==
    /\ pc = "call"
    /\ NoCall
    /\ \/ InitForwardedRecords
       \/ InitLoadAll
       \/ InitUpsertPrice
       \/ InitIsTradingDay
       \/ InitTradingDayNeighbours
       \/ InitResolverTwice
       \/ InitLoadSampleData
       \/ InitCheckThenExtract

NextCalls ==
    \/ CallForwardedRecords
    \/ CallLoadAll
    \/ CallUpsertPrice
    \/ CallIsTradingDay
    \/ CallGetPreviousTradingDay
    \/ CallGetNextTradingDay
    \/ CallResolverFirst
    \/ CallResolverAgain
    \/ CallLoadSampleData
    \/ CallCheckExecutionPrerequisites
    \/ CallSelectorAtExtraction

SpecCalls == InitCalls /\ [][NextCalls]_vars

\* ------------------------------------- two load executions on one schema

\* The load executions that run at the same time.
Executions == 1..2

\* The record each execution loads: a stock record of BatchDay.
ConcurrentRecords ==
    {PriceRecord(sym, BatchDay, p) : sym \in {"XTB", "CDR"}, p \in 1..2}

\* args[e]: where execution e stands in its iteration (step), its record,
\* the uncommitted writes of its transaction (new_instrument, new_price) and
\* its counters.
InitConcurrentLoads ==
    /\ pc = "call" /\ call = "load_data_to_database"
    /\ NoCall
    /\ \E recs \in [Executions -> ConcurrentRecords],
          db \in Databases(BatchDay + 1) :
            /\ args = [e \in Executions |->
                        [step |-> "select_instrument", rec |-> recs[e],
                         new_instrument |-> FALSE, new_price |-> FALSE,
                         records_inserted |-> 0, records_failed |-> 0]]
            /\ base_instruments = db.base_instruments
            /\ prices = db.prices

concurrent_frame ==
    <<call, pc, symbol, instrument_type, query_result, config, em_ret,
      skip_ret, es_ret, ret, context, today, run_vars, etl_jobs,
      data_quality_metrics>>

\* Another execution holds an uncommitted base_instruments row of the symbol.
instrument_locked(e) ==
    \E o \in Executions \ {e} :
        args[o].new_instrument /\ args[o].rec.symbol = args[e].rec.symbol

\* Another execution holds an uncommitted price row of the key.
price_locked(e) ==
    \E o \in Executions \ {e} :
        /\ args[o].new_price
        /\ args[o].rec.symbol = args[e].rec.symbol
        /\ args[o].rec.trading_date = args[e].rec.trading_date

\* SELECT id FROM base_instruments WHERE symbol = ..: the committed rows.
SelectInstrument(e) ==
    /\ args[e].step = "select_instrument"
    /\ args' = [args EXCEPT ![e].step =
                    IF find_instrument(base_instruments, "stock",
                                       args[e].rec.symbol) # {}
                    THEN "upsert_price" ELSE "insert_instrument"]
    /\ UNCHANGED <<concurrent_frame, base_instruments, prices, etl_job_details>>

\* INSERT INTO base_instruments: waits for an uncommitted row of the symbol,
\* raises on a committed one (unique symbol per exchange).
InsertInstrument(e) ==
    /\ args[e].step = "insert_instrument"
    /\ ~ instrument_locked(e)
    /\ args' = IF symbol_taken(base_instruments, args[e].rec.symbol)
               THEN [args EXCEPT ![e].step = "except"]
               ELSE [args EXCEPT ![e].step = "upsert_price",
                                 ![e].new_instrument = TRUE]
    /\ UNCHANGED <<concurrent_frame, base_instruments, prices, etl_job_details>>

\* INSERT INTO stock_prices ... ON CONFLICT DO UPDATE: waits for an
\* uncommitted row of the key.
UpsertPrice(e) ==
    /\ args[e].step = "upsert_price"
    /\ ~ price_locked(e)
    /\ args' = [args EXCEPT ![e].step = "commit", ![e].new_price = TRUE]
    /\ UNCHANGED <<concurrent_frame, base_instruments, prices, etl_job_details>>

\* The counter, the detail row and conn.commit(): the writes of the
\* transaction become visible.
CommitIteration(e) ==
    /\ args[e].step = "commit"
    /\ base_instruments' = with_instrument(base_instruments, "stock",
                                           args[e].rec.symbol)
    /\ prices' = upsert_price(prices, "stock", args[e].rec)
    /\ etl_job_details' =
            Append(etl_job_details, detail_row(e, "stock", args[e].rec, "completed"))
    /\ args' = [args EXCEPT ![e].step = "done",
                            ![e].new_instrument = FALSE,
                            ![e].new_price = FALSE,
                            ![e].records_inserted = @ + 1]
    /\ UNCHANGED concurrent_frame

\* The except block: records_failed, conn.rollback(), the failed detail row.
ExceptIteration(e) ==
    /\ args[e].step = "except"
    /\ etl_job_details' =
            Append(etl_job_details, detail_row(e, "stock", args[e].rec, "failed"))
    /\ args' = [args EXCEPT ![e].step = "done",
                            ![e].new_instrument = FALSE,
                            ![e].new_price = FALSE,
                            ![e].records_failed = @ + 1]
    /\ UNCHANGED <<concurrent_frame, base_instruments, prices>>

NextConcurrentLoads ==
    \/ \E e \in Executions : SelectInstrument(e)
    \/ \E e \in Executions : InsertInstrument(e)
    \/ \E e \in Executions : UpsertPrice(e)
    \/ \E e \in Executions : CommitIteration(e)
    \/ \E e \in Executions : ExceptIteration(e)

SpecConcurrentLoads == InitConcurrentLoads /\ [][NextConcurrentLoads]_vars

\* ------------------------------------------------------------------ claims

Returned(f) == call = f /\ pc = "return"

\* The operator configuration of the call's run context.
RunConf == conf_of(context.dag_run)

\* Layer 1 applies: instruments is a mapping with an entry for exactly this
\* symbol whose value is a strategy name.
PerSymbolEntry ==
    /\ RunConf.instruments.kind = "dict"
    /\ symbol \in DOMAIN RunConf.instruments.map
    /\ RunConf.instruments.map[symbol] \in {"historical", "incremental"}

\* Layer 2 applies: extraction_mode names one of the three overrides.
GlobalEntry ==
    RunConf.extraction_mode \in {"full_backfill", "historical", "incremental"}

GlobalReasons ==
    {"UNLIMITED BACKFILL", "Global historical mode override",
     "Global incremental mode override"}

DatabaseReasons ==
    {"New instrument: no existing data", "Stale data", "Sparse data",
     "Current data"}

FallbackReasons ==
    {"Backfill execution mode detected", "Default incremental mode"}

\* C1: the selector's layers apply in strict precedence: a per-symbol entry
\* 'historical' / 'incremental' for exactly this symbol returns that strategy
\* with max_records = 1000 whatever the other layers say; otherwise a global
\* extraction_mode override decides; otherwise the database state; otherwise
\* the run-level mode (when the resolver returns one).
C1_LayerPrecedence ==
    Returned("determine_extraction_strategy") =>
        IF PerSymbolEntry
        THEN /\ ~ es_ret.raised
             /\ es_ret.strategy = RunConf.instruments.map[symbol]
             /\ es_ret.max_records = 1000
             /\ es_ret.reason = "Manual override"
        ELSE IF GlobalEntry
        THEN ~ es_ret.raised /\ es_ret.reason \in GlobalReasons
        ELSE IF query_result.ok
        THEN ~ es_ret.raised /\ es_ret.reason \in DatabaseReasons
        ELSE es_ret.raised \/ es_ret.reason \in FallbackReasons

\* A per-symbol 'incremental' entry against a global full_backfill, an empty
\* history (historical by inference) and a backfill run: layer 1 has won.
C1_Witness ==
    /\ Returned("determine_extraction_strategy")
    /\ PerSymbolEntry
    /\ RunConf.instruments.map[symbol] = "incremental"
    /\ RunConf.extraction_mode = "full_backfill"
    /\ RunConf.mode = "backfill"
    /\ query_result.ok /\ query_result.record_count = 0
    /\ es_ret.strategy = "incremental" /\ es_ret.max_records = 1000

\* C2: max_records = -1 is returned only under extraction_mode =
\* 'full_backfill'; every other returned decision has a positive cap.
C2_UnboundedOnlyByFullBackfill ==
    (Returned("determine_extraction_strategy") /\ ~ es_ret.raised) =>
        /\ (es_ret.max_records = -1 => RunConf.extraction_mode = "full_backfill")
        /\ (es_ret.max_records # -1 => es_ret.max_records > 0)

\* An instrument without history in a backfill run, no override: the
\* inferred decision is capped.
C2_Witness ==
    /\ Returned("determine_extraction_strategy")
    /\ ~ PerSymbolEntry /\ ~ GlobalEntry
    /\ query_result.ok /\ query_result.record_count = 0
    /\ RunConf.mode = "backfill"
    /\ es_ret.strategy = "historical" /\ es_ret.max_records = 1000

\* The logical date of the call: ds, else logical_date, else today.
LogicalDate ==
    IF context.ds # NoDate THEN context.ds
    ELSE IF context.logical_date # NoDate THEN context.logical_date
    ELSE today

\* C3: every mode the resolver returns is the one of the first matching
\* rule: conf mode 'backfill'; else run type manual or backfill; else a
\* logical date more than 7 days before today; otherwise incremental.
C3_ModePrecedence ==
    (Returned("determine_execution_mode") /\ ~ em_ret.raised) =>
        IF RunConf.mode = "backfill"
        THEN em_ret.mode = "backfill"
             /\ em_ret.config.reason = "Explicit backfill configuration"
        ELSE IF context.dag_run.run_type \in {"manual", "backfill"}
        THEN em_ret.mode = "backfill" /\ em_ret.config.reason = "DAG run type"
        ELSE IF today - LogicalDate > 7
        THEN em_ret.mode = "backfill"
             /\ em_ret.config.reason = "Historical date (older than 7 days)"
        ELSE em_ret.mode = "incremental"
             /\ em_ret.config.reason = "Default mode"

\* A scheduled run whose logical date is exactly 7 days old is incremental.
C3_Witness ==
    /\ Returned("determine_execution_mode")
    /\ context.dag_run.run_type = "scheduled"
    /\ RunConf.mode # "backfill"
    /\ today - LogicalDate = 7
    /\ em_ret.mode = "incremental"

\* d is the latest trading day strictly before t.
LatestSessionBefore(d, t) ==
    /\ d < t
    /\ is_trading_day(d)
    /\ \A e \in (d + 1)..(t - 1) : ~ is_trading_day(e)

\* C4: the returned target_date is the logical date in backfill mode and the
\* latest trading day before today in incremental mode, whatever the logical
\* date is.
C4_TargetDate ==
    (Returned("determine_execution_mode") /\ ~ em_ret.raised) =>
        /\ em_ret.config.mode = em_ret.mode
        /\ em_ret.mode = "backfill" => em_ret.config.target_date = LogicalDate
        /\ em_ret.mode = "incremental" =>
                LatestSessionBefore(em_ret.config.target_date, today)

\* An incremental run whose logical date is not the day before its target.
C4_Witness ==
    /\ Returned("determine_execution_mode")
    /\ em_ret.mode = "incremental"
    /\ LogicalDate < today - 1
    /\ em_ret.config.target_date > LogicalDate

\* C5: the returned is_trading_day is the calendar's answer for target_date.
C5_IsTradingDayOfTarget ==
    (Returned("determine_execution_mode") /\ ~ em_ret.raised) =>
        em_ret.config.is_trading_day = is_trading_day(em_ret.config.target_date)

\* C6: a backfill config is skipped iff target_date is a Saturday or Sunday;
\* an incremental config iff target_date is not a trading day.
C6_SkipRule ==
    Returned("should_skip_execution") =>
        /\ config.mode = "backfill" =>
            (skip_ret.should_skip <=> config.target_date % 7 \in {5, 6})
        /\ config.mode = "incremental" =>
            (skip_ret.should_skip <=> ~ is_trading_day(config.target_date))

\* A weekday public holiday in backfill mode is not skipped.
C6_Witness ==
    /\ Returned("should_skip_execution")
    /\ config.mode = "backfill"
    /\ config.target_date \in DOMAIN polish_holidays
    /\ config.target_date % 7 < 5
    /\ ~ skip_ret.should_skip

EtlTasks ==
    {"create_etl_job", "extract_and_transform", "load_data",
     "validate_data_quality", "finalize_etl_session"}

\* C7: the skip decision gates the whole run.  check_execution_prerequisites
\* returns one of the two paths 'skip_execution' and 'proceed_with_etl'; when
\* it chose skip the reason is published, no job record exists and none of
\* create_etl_job, extract, load, validate and finalize has started; a step of
\* the ETL starts, and a job record exists, only when proceed was chosen and
\* the execution config has been published, and the job is created for the
\* published target date.
C7_SkipGatesTheRun ==
    /\ xcom.branch \in {Absent, "skip_execution", "proceed_with_etl"}
    /\ (task_state["check_prerequisites"] = "success") = (xcom.branch # Absent)
    /\ xcom.branch = "skip_execution" =>
            /\ xcom.skip_reason.should_skip
            /\ xcom.skip_reason.reason # Absent
            /\ etl_jobs = <<>>
            /\ \A t \in EtlTasks :
                    try_number[t] = 0 /\ task_state[t] \in {"none", "skipped"}
            /\ task_state["proceed_with_etl"] = "skipped"
    /\ xcom.branch = "proceed_with_etl" =>
            /\ ~ xcom.skip_reason.should_skip
            /\ task_state["skip_execution"] = "skipped"
    /\ (etl_jobs # <<>> \/ \E t \in EtlTasks : try_number[t] > 0) =>
            /\ xcom.branch = "proceed_with_etl"
            /\ xcom.execution_config # NoConfig
    /\ \A j \in DOMAIN etl_jobs :
            etl_jobs[j].target_date = xcom.execution_config.target_date

\* A skipped run that has settled: the skip path ran, the ETL did not.
C7_Witness ==
    /\ xcom.branch = "skip_execution"
    /\ task_state["skip_execution"] = "success"
    /\ \A t \in EtlTasks : task_state[t] = "skipped"

\* C8: without a per-symbol override, extraction_mode decides: full_backfill
\* gives (historical, -1), historical (historical, 1000), incremental
\* (incremental, 1), whatever the history query would return; any other or
\* no value leaves the decision to the later layers.
C8_GlobalOverride ==
    (Returned("determine_extraction_strategy") /\ ~ PerSymbolEntry) =>
        /\ RunConf.extraction_mode = "full_backfill" =>
            /\ ~ es_ret.raised
            /\ es_ret.strategy = "historical" /\ es_ret.max_records = -1
        /\ RunConf.extraction_mode = "historical" =>
            /\ ~ es_ret.raised
            /\ es_ret.strategy = "historical" /\ es_ret.max_records = 1000
        /\ RunConf.extraction_mode = "incremental" =>
            /\ ~ es_ret.raised
            /\ es_ret.strategy = "incremental" /\ es_ret.max_records = 1
        /\ ~ GlobalEntry =>
            /\ es_ret.reason \notin GlobalReasons
            /\ query_result.ok => es_ret.reason \in DatabaseReasons

\* A global 'incremental' decides although the history is empty.
C8_Witness ==
    /\ Returned("determine_extraction_strategy")
    /\ ~ PerSymbolEntry
    /\ RunConf.extraction_mode = "incremental"
    /\ query_result.ok /\ query_result.record_count = 0
    /\ es_ret.strategy = "incremental" /\ es_ret.max_records = 1

\* C9: with no override and a history query that succeeded, the first
\* matching rule decides: no record (historical, 1000); latest record more
\* than 7 days before today (historical, 500); fewer than 30 records
\* (historical, 1000); otherwise (incremental, 1).
C9_DatabaseState ==
    (/\ Returned("determine_extraction_strategy")
     /\ ~ PerSymbolEntry /\ ~ GlobalEntry /\ query_result.ok) =>
        /\ ~ es_ret.raised
        /\ IF query_result.record_count = 0
           THEN es_ret.strategy = "historical" /\ es_ret.max_records = 1000
           ELSE IF today - query_result.latest_date > 7
           THEN es_ret.strategy = "historical" /\ es_ret.max_records = 500
           ELSE IF query_result.record_count < 30
           THEN es_ret.strategy = "historical" /\ es_ret.max_records = 1000
           ELSE es_ret.strategy = "incremental" /\ es_ret.max_records = 1

\* Stale and sparse at once, in a run whose mode is incremental: the stale
\* rule has decided.
C9_Witness ==
    /\ Returned("determine_extraction_strategy")
    /\ ~ PerSymbolEntry /\ ~ GlobalEntry /\ query_result.ok
    /\ query_result.record_count \in 1..29
    /\ today - query_result.latest_date > 7
    /\ es_ret.max_records = 500

\* C10: when the history query fails the selector raises nothing and
\* returns the run-level fallback: (historical, 1000) for a backfill run,
\* (incremental, 1) otherwise.
C10_QueryFailureFallsBack ==
    (/\ Returned("determine_extraction_strategy")
     /\ ~ PerSymbolEntry /\ ~ GlobalEntry /\ ~ query_result.ok) =>
        /\ ~ es_ret.raised
        /\ es_ret.strategy \in {"historical", "incremental"}
        /\ es_ret.strategy = "historical" => es_ret.max_records = 1000
        /\ es_ret.strategy = "incremental" => es_ret.max_records = 1

\* The last k records of a list.
LastRecords(data, k) == [i \in 1..k |-> data[Len(data) - k + i]]

\* C11: of a fetched list of n records, oldest first, the extraction step
\* forwards the most recent min(n, c) records under a historical decision
\* with cap c > 0, all n under a historical decision with cap -1, and only
\* the most recent one under an incremental decision whatever its cap;
\* nothing for n = 0.
C11_ForwardedSlice ==
    Returned("forwarded_records") =>
        LET n == Len(args.fetch)
            c == args.max_records
        IN  /\ n = 0 => ret = <<>>
            /\ args.strategy = "historical" /\ c > 0 =>
                    ret = LastRecords(args.fetch, Min(n, c))
            /\ args.strategy = "historical" /\ c = Unlimited =>
                    ret = args.fetch
            /\ args.strategy = "incremental" /\ n > 0 =>
                    ret = <<args.fetch[n]>>

\* A historical decision whose cap cuts the list.
C11_Witness ==
    /\ Returned("forwarded_records")
    /\ args.strategy = "historical"
    /\ args.max_records > 0 /\ args.max_records < Len(args.fetch)
    /\ Len(ret) = args.max_records

\* C12: a job's status moves only from running to completed or from running
\* to failed: once a job is completed or failed, no step of the run, no retry
\* of a task and no exception handler changes its status.
C12_TerminalStatusKept ==
    [][\A i \in DOMAIN etl_jobs :
            etl_jobs[i].status # "running" =>
                etl_jobs'[i].status = etl_jobs[i].status]_vars

\* C13: the final status finalize publishes is failed exactly when the
\* success rate of the load, (inserted + updated) / attempted, is below 50 %,
\* and completed otherwise, a load that attempted no record included.
C13_FailedIffBelowHalf ==
    xcom.final_summary.status # Absent =>
        /\ xcom.final_summary.success_rate =
                success_rate_of(xcom.final_summary.total_inserted,
                                xcom.final_summary.total_updated,
                                xcom.final_summary.total_processed)
        /\ xcom.final_summary.status =
                IF xcom.final_summary.success_rate < 50 THEN "failed"
                ELSE "completed"

StepsAfterJobCreation ==
    {"extract_and_transform", "load_data", "validate_data_quality",
     "finalize_etl_session"}

\* An attempt of task t ends with an exception.
Raises(t) == try_number'[t] = try_number[t] + 1 /\ task_state'[t] # "success"

\* C15: whenever extract, load, validate or finalize raises after the job
\* was created, the job is failed and carries the exception text when the
\* attempt ends.
C15_RaiseMarksJobFailed ==
    [][\A t \in StepsAfterJobCreation :
            Raises(t) /\ xcom.job_id \in DOMAIN etl_jobs =>
                /\ etl_jobs'[xcom.job_id].status = "failed"
                /\ etl_jobs'[xcom.job_id].error_message # Absent]_vars

\* The rows of the key of the last upserted record.
RowsOfKey(rows) == {r \in rows : same_key(r, args.ity, args.rec)}

\* C16: after any sequence of upserts the price tables hold at most one row
\* per (instrument, trading date), and applying a record a second time
\* changes neither the number of rows nor any value.
C16_UpsertIdempotent ==
    call = "upsert_price" =>
        /\ \A r1 \in prices, r2 \in prices :
                r1.table = r2.table /\ r1.symbol = r2.symbol
                    /\ r1.trading_date = r2.trading_date => r1 = r2
        /\ args.again => prices = args.before

\* The same record was applied twice in a row, to tables that hold rows of
\* other keys too.
C16_Witness ==
    /\ Returned("upsert_price")
    /\ args.again
    /\ RowsOfKey(prices) # {}
    /\ Cardinality(prices) > 1

\* The last upsert met a row of its key that held other values.
Overwrote ==
    /\ Returned("upsert_price")
    /\ \E old \in RowsOfKey(args.before) : old.price # args.rec.price

\* The rows of the other keys, and the number of rows, are as before.
OtherRowsKept ==
    /\ prices \ RowsOfKey(prices) = args.before \ RowsOfKey(args.before)
    /\ Cardinality(RowsOfKey(prices)) = 1

\* C17 as stated: an upsert that meets a row of its key with other values
\* overwrites the price and volume values and leaves the identity, the date,
\* the data source and the content hash of the row as they were.
C17_OverwritesValuesOnly ==
    Overwrote =>
        /\ OtherRowsKept
        /\ \A old \in RowsOfKey(args.before), new \in RowsOfKey(prices) :
                /\ new.price = args.rec.price
                /\ new.table = old.table /\ new.symbol = old.symbol
                /\ new.trading_date = old.trading_date
                /\ new.data_source = old.data_source
                /\ new.raw_data_hash = old.raw_data_hash

\* C17, amended: an upsert that meets a row of its key with other values
\* overwrites the price and volume values and the content hash with those of
\* the incoming record and leaves the identity, the date and the data source
\* of the row as they were.
C17_OverwritesValuesAndHash ==
    Overwrote =>
        /\ OtherRowsKept
        /\ \A old \in RowsOfKey(args.before), new \in RowsOfKey(prices) :
                /\ new.price = args.rec.price
                /\ new.raw_data_hash = args.rec.raw_data_hash
                /\ new.table = old.table /\ new.symbol = old.symbol
                /\ new.trading_date = old.trading_date
                /\ new.data_source = old.data_source

\* A downloaded record overwrote the row loaded from a file: the values and
\* the hash are the record's, the data source is the row's.
C17_Witness ==
    /\ Overwrote
    /\ \E old \in RowsOfKey(args.before), new \in RowsOfKey(prices) :
            /\ old.data_source = "file" /\ new.data_source = "file"
            /\ args.rec.data_source = "stooq"
            /\ new.raw_data_hash # old.raw_data_hash
            /\ new.raw_data_hash = args.rec.raw_data_hash

\* C18: for a run context that carries no logical date (neither ds nor
\* logical_date), with or without a dag run and a conf, the resolver does
\* not raise: it works on today's date and returns a configuration with
\* every field set.
C18_NoLogicalDateFallsBackToToday ==
    Returned("determine_execution_mode")
        /\ context.ds = NoDate /\ context.logical_date = NoDate =>
            /\ ~ em_ret.raised
            /\ em_ret.mode \in {"backfill", "incremental"}
            /\ em_ret.config.mode = em_ret.mode
            /\ em_ret.config.execution_date_obj = today
            /\ em_ret.config.today = today
            /\ em_ret.config.target_date # NoDate
            /\ em_ret.config.dag_run_type # Absent
            /\ em_ret.config.reason # Absent
            /\ em_ret.config.date_range # Absent
            /\ em_ret.config.batch_size # NoInt

\* C19: every price record a run loads is dated the run's target_date.
C19_LoadedOnTargetDate ==
    \A i \in DOMAIN etl_job_details :
        etl_job_details[i].status = "completed" =>
            etl_job_details[i].target_date = xcom.execution_config.target_date

\* C20: the calendar lookup of a day is true exactly when the day is one of
\* Monday to Friday, no Polish public holiday and no custom closure; it is
\* false for every Saturday and Sunday.
C20_TradingDayRule ==
    Returned("is_trading_day") =>
        /\ ret = (/\ weekday(args.check_date) \in 0..4
                  /\ args.check_date \notin DOMAIN polish_holidays
                  /\ args.check_date \notin custom_closures)
        /\ weekday(args.check_date) \in {5, 6} => ret = FALSE

\* The lookup of a holiday that falls on a weekday.
C20_Witness ==
    /\ Returned("is_trading_day")
    /\ weekday(args.check_date) \in 0..4
    /\ args.check_date \in DOMAIN polish_holidays
    /\ ret = FALSE

\* A day the exchange trades on: Monday to Friday, no holiday, no closure.
TradingDay(d) ==
    /\ weekday(d) \in 0..4
    /\ d \notin DOMAIN polish_holidays
    /\ d \notin custom_closures

\* C21: get_next_trading_day(d) returns the earliest trading day strictly
\* after d and get_previous_trading_day(d) the latest trading day strictly
\* before d; neither returns d or a non-trading day.
C21_NeighbouringTradingDay ==
    /\ Returned("get_next_trading_day") =>
            /\ ret > args.reference_date
            /\ TradingDay(ret)
            /\ \A d \in (args.reference_date + 1)..(ret - 1) : ~ TradingDay(d)
    /\ Returned("get_previous_trading_day") =>
            /\ ret < args.reference_date
            /\ TradingDay(ret)
            /\ \A d \in (ret + 1)..(args.reference_date - 1) : ~ TradingDay(d)

\* The next trading day of Good Friday, a trading day itself, lies beyond
\* the weekend and Easter Monday.
C21_Witness ==
    /\ Returned("get_next_trading_day")
    /\ TradingDay(args.reference_date)
    /\ ret > args.reference_date + 3

DetailsOf(rec) ==
    {i \in DOMAIN etl_job_details :
        /\ etl_job_details[i].symbol = rec.symbol
        /\ etl_job_details[i].target_date = rec.trading_date}

DetailStatuses(rec) == {etl_job_details[i].status : i \in DetailsOf(rec)}

C24_OneDetailRowPerInstrument ==
    Returned("load_all") /\ args.log_fails = {} =>
        \A i \in 1..Len(args.items) :
            Cardinality({j \in DOMAIN etl_job_details :
                            etl_job_details[j].symbol = args.items[i].rec.symbol})
                = 1

\* The day is a public holiday or a custom closure.
Closed(d) == d \in DOMAIN polish_holidays \/ d \in custom_closures

\* C25: when an incremental configuration is skipped, the reason names the
\* holiday whenever the target date is a public holiday or a closure, also
\* on a Saturday or Sunday; it is Weekend for a Saturday or Sunday that is
\* no holiday, and Non-trading day only for a date that is neither.
C25_SkipReason ==
    Returned("should_skip_execution") /\ config.mode = "incremental"
        /\ skip_ret.should_skip =>
            LET d == config.target_date
            IN  /\ Closed(d) =>
                        /\ skip_ret.reason = "Polish holiday"
                        /\ skip_ret.holiday # ""
                        /\ d \in DOMAIN polish_holidays =>
                                skip_ret.holiday = polish_holidays[d]
                /\ ~ Closed(d) /\ weekday(d) \in {5, 6} =>
                        skip_ret.reason = "Weekend"
                /\ skip_ret.reason = "Non-trading day" =>
                        ~ Closed(d) /\ weekday(d) \in 0..4

\* An incremental configuration skipped on a holiday that falls on a Sunday.
C25_Witness ==
    /\ Returned("should_skip_execution") /\ config.mode = "incremental"
    /\ skip_ret.should_skip
    /\ weekday(config.target_date) = 6
    /\ skip_ret.reason = "Polish holiday"

\* C26: two load executions interleaved statement by statement never leave
\* two price rows of one (instrument, trading date) nor two instrument rows
\* of one symbol, and when both load a symbol that did not exist, both end
\* with their record counted as inserted or updated, none as failed.
C26_ConcurrentLoadsLoseNothing ==
    call = "load_data_to_database" =>
        /\ \A r1 \in prices, r2 \in prices :
                r1.table = r2.table /\ r1.symbol = r2.symbol
                    /\ r1.trading_date = r2.trading_date => r1 = r2
        /\ \A b1 \in base_instruments, b2 \in base_instruments :
                b1.symbol = b2.symbol => b1 = b2
        /\ (\A e \in Executions : args[e].step = "done") =>
                \A e \in Executions :
                    /\ args[e].records_failed = 0
                    /\ args[e].records_inserted = 1

\* C27: a configuration the resolver returns with mode incremental is never
\* skipped by the skip decision: its target date is a trading day, whatever
\* day it was resolved on.
C27_IncrementalNeverSkipped ==
    call = "determine_execution_mode" /\ pc = "checked"
        /\ em_ret.mode = "incremental" =>
            /\ ~ skip_ret.should_skip
            /\ TradingDay(em_ret.config.target_date)

\* An incremental configuration resolved on a Sunday that is a holiday, and
\* not skipped.
C27_Witness ==
    /\ call = "determine_execution_mode" /\ pc = "checked"
    /\ em_ret.mode = "incremental"
    /\ weekday(today) = 6 /\ today \in DOMAIN polish_holidays
    /\ ~ skip_ret.should_skip

\* The successful iterations of the load whose key held a row before.
Overwriting ==
    {i \in (1..Len(args.items)) \ args.fails :
        \E r \in args.prices : same_key(r, args.items[i].ity, args.items[i].rec)}

\* C28: records_inserted counts the upserts that created a row,
\* records_updated those that overwrote an existing row, and the three
\* counters add up to the number of records processed.
C28_CountersClassifyUpserts ==
    Returned("load_all") =>
        /\ ret.records_updated = Cardinality(Overwriting)
        /\ ret.records_inserted =
                Len(args.items) - Cardinality(args.fails) - Cardinality(Overwriting)
        /\ ret.records_inserted + ret.records_updated + ret.records_failed
                = Len(args.items)


\* The processing of a symbol aborted: an exception left the outer try block.
Aborted(inp) ==
    /\ Len(inp.records) > 0
    /\ inp.instrument = "create_raises" \/ inp.detail_raises

\* C29: process_symbol_data always returns processed = inserted + failed;
\* when the processing of a symbol with records aborts with an exception,
\* all of the symbol's records are reported failed (failed = number of
\* records, inserted = 0); so the CLI load never reports the job completed
\* for a run in which a symbol aborted.
C29_AbortFailsAllRecords ==
    (pc = "return" /\ call = "load_sample_data") =>
        /\ \A k \in 1..Len(args.results) :
            /\ ret.counts[k][1] = ret.counts[k][2] + ret.counts[k][3]
            /\ Aborted(args.results[k]) =>
                /\ ret.counts[k][3] = Len(args.results[k].records)
                /\ ret.counts[k][2] = 0
        /\ (\E k \in 1..Len(args.results) : Aborted(args.results[k])) =>
                ret.final_status # "completed"

\* The selector call of a run decided in its execution-mode fallback layer.
FallbackLayerUsed ==
    /\ pc = "return" /\ call = "check_execution_prerequisites"
    /\ ~ es_ret.raised
    /\ es_ret.reason \in {"Backfill execution mode detected",
                          "Default incremental mode"}

\* C30: the run-level mode the selector's fallback layer uses is the mode
\* stored in the configuration check_execution_prerequisites computed for
\* the same run, also when the check and the extraction fall on different
\* calendar days: the layer answers historical exactly when the stored mode
\* is backfill.
C30_FallbackModeIsStoredMode ==
    FallbackLayerUsed =>
        (es_ret.strategy = "historical" <=> em_ret.config.mode = "backfill")
====
